---- MODULE Spec2Model ----
(***************************************************************************)
(* A model of Jellyfin-Migrator (jellyfin_migrator.py,                     *)
(* jellyfin_id_scanner.py).                                                *)
(*                                                                         *)
(* The module holds several specifications over one set of variables:      *)
(*   Spec          the job runner process_files with get_target and        *)
(*                 process_file                                            *)
(*   SpecRun       the calls of process_files of one run, in order         *)
(*   SpecIds       get_ids followed by update_db_table_ids                 *)
(*   SpecRootPath  recursive_root_path_replacer on one string, twice       *)
(*   SpecIdPath    recursive_id_path_replacer on one string                *)
(*   SpecImages    the image column branch of update_db_table              *)
(*   SpecScan      the text column scan of the id scanner                  *)
(*   SpecAncestor  convert_ancestor_id on one identifier, twice            *)
(*   SpecHash      get_dotnet_MD5 on the type and path of one row          *)
(*   SpecTable     update_db_table on one database file                    *)
(*   SpecDrivers   update_db_table or update_db_table_ids, row by row      *)
(*   SpecMain      the two passes of a run with get_ids between them and   *)
(*                 update_file_dates at the end                            *)
(*   SpecTarget    get_target with the "auto" target, in both passes       *)
(*   SpecMove      process_file moving the files of one job                *)
(* Each specification keeps the variables of the others at their idle      *)
(* value.                                                                  *)
(***************************************************************************)
EXTENDS Integers, Sequences, FiniteSets, TLC

VARIABLES
    \* ---- process_files / get_target / process_file
    pc,            \* position of the job runner
    disk,          \* the source files that exist under source_root
    inplace,       \* the source files whose resolved target equals the source
    lst,           \* the job list handed to process_files
    jobIdx,        \* index of the current job in lst
    globLeft,      \* what the glob generator of the current job still yields
    done,          \* process_files' local set `done`
    handled,       \* per file: the jobs that called get_target and process_func
    copies,        \* per file: how many times copy(source, target) ran
    afterProc,     \* per file: copies made after process_func had handled it
    user_wants_inplace_warning,   \* the module global of that name
    prompts,       \* the in-place prompts of the run and their answers
    processed,     \* (pass, file): process_file got past `if not target`
    passNo,        \* which call of process_files of the run this is
    \* ---- get_ids / update_db_table_ids
    ipc,           \* position of the id derivation and id rewrite pass
    db,            \* the tables as the open connection sees them
    dbFile,        \* the tables as committed to the database file
    preview,       \* the preview argument of update_db_table_ids
    ids,           \* the module global `ids` (the "bin" map)
    duplicates,    \* get_ids' list `duplicates`
    reported,      \* the old ids get_ids listed to the operator
    colIdx,        \* index into IdColumns of the column being rewritten
    todo,          \* values of the snapshot `rows` not yet visited
    log,           \* the UPDATE and DELETE statements executed, in order
    cons,          \* the sqlite3 connections that are open, by handler
    \* ---- the pure functions
    fpc,           \* position of the call of the replacer or column update
    fIn,           \* its input
    fOut           \* its outputs so far

jobVars == <<pc, disk, inplace, lst, jobIdx, globLeft, done, handled, copies,
             afterProc, user_wants_inplace_warning, prompts, processed,
             passNo>>
idVars == <<ipc, db, dbFile, preview, ids, duplicates, reported, colIdx,
            todo, log, cons>>
funVars == <<fpc, fIn, fOut>>
vars == <<jobVars, idVars, funVars>>

Idle == "idle"

JobsIdle ==
    /\ pc = Idle /\ disk = {} /\ inplace = {} /\ lst = <<>> /\ jobIdx = 0
    /\ globLeft = {} /\ done = {} /\ handled = <<>> /\ copies = <<>>
    /\ afterProc = <<>> /\ user_wants_inplace_warning = TRUE
    /\ prompts = <<>> /\ processed = {} /\ passNo = 0

IdsIdle ==
    /\ ipc = Idle /\ db = <<>> /\ dbFile = <<>>
    /\ preview = FALSE /\ ids = <<>> /\ duplicates = <<>> /\ reported = {}
    /\ colIdx = 0 /\ todo = {} /\ log = <<>> /\ cons = {}

FunIdle == fpc = Idle /\ fIn = <<>> /\ fOut = <<>>

(***************************************************************************)
(* PART 1.  process_files, get_target, process_file                        *)
(***************************************************************************)

\* The source tree under source_root.  A file is its path relative to
\* source_root, as segments; "sub.d" is a directory.
File(dir, name, isdir) == [dir |-> dir, name |-> name, isdir |-> isdir]

LibraryDb  == File(<<"data">>, "library.db", FALSE)
JellyfinDb == File(<<"data">>, "jellyfin.db", FALSE)
OtherDb    == File(<<"data">>, "other.db", FALSE)
SystemXml  == File(<<"config">>, "system.xml", FALSE)
PosterJpg  == File(<<"metadata", "a">>, "poster.jpg", FALSE)
SubDir     == File(<<"data">>, "sub.d", TRUE)

Tree == {LibraryDb, JellyfinDb, OtherDb, SystemXml, PosterJpg, SubDir}

\* The suffix of a file name as Path.suffix gives it, for the names of Tree.
Suffix(name) ==
    CASE name \in {"library.db", "jellyfin.db", "other.db"} -> ".db"
      [] name = "system.xml" -> ".xml"
      [] name = "poster.jpg" -> ".jpg"
      [] name = "sub.d" -> ".d"
      [] OTHER -> ""

\* A job source: a literal path, or a glob pattern relative to source_root:
\* the directory segments before the first wildcard, whether "**" follows,
\* and the pattern of the last component ("*.db" is suffix ".db", "*.*" is
\* any name with a dot, "*" is any name).
Literal(f) == [wild |-> FALSE, file |-> f]
Pattern(dir, rec, suffix) ==
    [wild |-> TRUE, dir |-> dir, rec |-> rec, suffix |-> suffix]

IsPrefix(s, t) == Len(s) <= Len(t) /\ SubSeq(t, 1, Len(s)) = s

\* source_root.glob(str(source)): the paths of the tree the pattern matches,
\* directories included.
GlobMatch(p, f) ==
    /\ IF p.rec THEN IsPrefix(p.dir, f.dir) ELSE p.dir = f.dir
    /\ \/ p.suffix = "*"
       \/ p.suffix = "*.*" /\ Suffix(f.name) # ""
       \/ p.suffix = Suffix(f.name)

Glob(p, existing) == {f \in existing : GlobMatch(p, f)}

Job(source, target, copy_only) ==
    [source |-> source, target |-> target, copy_only |-> copy_only]

\* todo_list_paths: the jobs that match a file of Tree.
todo_list_paths == <<
    Job(Literal(LibraryDb), "auto", FALSE),
    Job(Literal(JellyfinDb), "auto", FALSE),
    Job(Pattern(<<"data">>, FALSE, ".db"), "auto", TRUE),
    Job(Pattern(<<"config">>, FALSE, ".xml"), "auto", FALSE),
    Job(Pattern(<<>>, TRUE, "*.*"), "auto", TRUE) >>

\* todo_list_id_paths
todo_list_id_paths == <<
    Job(Literal(LibraryDb), "auto-existing", FALSE),
    Job(Pattern(<<"config">>, FALSE, ".xml"), "auto-existing", FALSE),
    Job(Pattern(<<"metadata">>, TRUE, "*"), "auto-existing", FALSE),
    Job(Pattern(<<"data">>, TRUE, "*"), "auto-existing", FALSE) >>

\* A list in which a literal job follows the wildcard that matches its file.
todo_list_late_literal == <<
    Job(Pattern(<<"data">>, FALSE, ".db"), "auto", TRUE),
    Job(Literal(LibraryDb), "auto", FALSE),
    Job(Pattern(<<>>, TRUE, "*.*"), "auto", TRUE) >>

\* A list with explicit targets.  An explicit target is written as the
\* name of the tree file whose path it is, or "backup.db", a path outside
\* the source tree.
todo_list_explicit == <<
    Job(Literal(LibraryDb), "backup.db", FALSE),
    Job(Literal(SystemXml), "system.xml", FALSE),
    Job(Pattern(<<"data">>, FALSE, ".db"), "auto-existing", TRUE) >>

\* todo_list_ids
todo_list_ids == <<
    Job(Literal(LibraryDb), "auto-existing", FALSE) >>

\* The calls of process_files of a run: the path pass and the id path pass
\* with process_file, the id pass with update_db_table_ids.
MaxPasses == 3

process_func(n) ==
    IF n < MaxPasses THEN "process_file" ELSE "update_db_table_ids"

JobLists ==
    {todo_list_paths, todo_list_id_paths, todo_list_late_literal,
     todo_list_explicit}

\* Whether job j names file f: the literal path, or a path the glob yields.
JobMatches(j, f) ==
    IF j.source.wild THEN f \in Glob(j.source, disk) ELSE j.source.file = f

Answers == {"y", "n", "a"}

\* len(target.parts) == 1 and target.name.startswith("auto")
IsAuto(target) == target \in {"auto", "auto-existing"}

\* source == target, after the target of an auto job has been resolved.
SameAsSource(src, target) ==
    IF IsAuto(target) THEN src \in inplace ELSE target = src.name

\* A get_target that copies for the target "auto" only.
ShouldCopyAutoOnly(src, target) ==
    target = "auto" /\ ~SameAsSource(src, target)

\* The branch `elif not skip_copy` is reached: copy(source, target) runs.
ShouldCopy(src, target) ==
    ~SameAsSource(src, target) /\ target # "auto-existing"

\* A prompt that appears for every in-place file.
ShouldPromptAlways(src, target, warn) == SameAsSource(src, target)

\* `if source == target: if user_wants_inplace_warning`: input() is called.
ShouldPrompt(src, target, warn) == SameAsSource(src, target) /\ warn

\* get_target for one source: the copy it makes (0 or 1), whether it prompts,
\* whether it returns a target (None after the answer "n"), and the new value
\* of the global.  `answer` is what the operator types if the prompt appears.
get_target(src, target, warn, answer) ==
    [copy |-> IF ShouldCopy(src, target) THEN 1 ELSE 0,
     prompt |-> ShouldPrompt(src, target, warn),
     target |-> ~(ShouldPrompt(src, target, warn) /\ answer = "n"),
     warn |-> IF ShouldPrompt(src, target, warn) /\ answer = "a"
              THEN FALSE ELSE warn]

\* The body of both branches of the loop of process_files once a source has
\* passed the `done` test: done.add, get_target, process_func.
HandleSource(src, answer) ==
    LET job == lst[jobIdx]
        t == get_target(src, job.target, user_wants_inplace_warning, answer)
    IN  /\ done' = done \cup {src}
        /\ handled' = [handled EXCEPT ![src] = Append(@, jobIdx)]
        /\ copies' = [copies EXCEPT ![src] = @ + t.copy]
        /\ afterProc' = [afterProc EXCEPT ![src] =
                            IF handled[src] # <<>> THEN @ + t.copy ELSE @]
        /\ user_wants_inplace_warning' = t.warn
        /\ prompts' = IF t.prompt
                      THEN Append(prompts, [pass |-> passNo, file |-> src,
                                            job |-> jobIdx, answer |-> answer])
                      ELSE prompts
        /\ processed' = IF t.target THEN processed \cup {<<passNo, src>>}
                        ELSE processed
        \* process_file returns when it gets no target; update_db_table_ids
        \* hands it to sqlite3.connect, which raises TypeError.
        /\ pc' = IF ~t.target /\ process_func(passNo) = "update_db_table_ids"
                 THEN "crashed" ELSE pc

\* A runner that forgets which sources it has handled.
AlreadyDoneNever(src) == FALSE

\* `if src in done` (wildcard branch) and `if source in done` (literal).
AlreadyDone(src) == src \in done

JobsInit ==
    /\ pc = "job"
    /\ disk \in SUBSET Tree
    /\ inplace \in SUBSET {LibraryDb, SystemXml}
    /\ lst \in JobLists
    /\ jobIdx = 1
    /\ globLeft = {}
    /\ done = {}
    /\ handled = [f \in Tree |-> <<>>]
    /\ copies = [f \in Tree |-> 0]
    /\ afterProc = [f \in Tree |-> 0]
    /\ user_wants_inplace_warning = TRUE
    /\ prompts = <<>>
    /\ processed = {}
    /\ passNo = 1

\* A job with a literal source: skipped when the source is in `done`, else
\* handled.  copy() of a missing source raises and ends the run.
LiteralJob ==
    /\ pc = "job" /\ jobIdx <= Len(lst) /\ ~lst[jobIdx].source.wild
    /\ LET src == lst[jobIdx].source.file IN
       IF AlreadyDone(src)
       THEN /\ jobIdx' = jobIdx + 1
            /\ UNCHANGED <<pc, done, handled, copies, afterProc,
                           user_wants_inplace_warning, prompts, processed>>
       ELSE IF src \notin disk /\ ShouldCopy(src, lst[jobIdx].target)
       THEN /\ pc' = "crashed"
            /\ done' = done \cup {src}
            /\ UNCHANGED <<jobIdx, handled, copies, afterProc,
                           user_wants_inplace_warning, prompts, processed>>
       ELSE /\ \E answer \in Answers : HandleSource(src, answer)
            /\ jobIdx' = jobIdx + 1
    /\ UNCHANGED <<disk, inplace, lst, globLeft, passNo>>
    /\ UNCHANGED <<idVars, funVars>>

\* A job with wildcards: the glob generator is created.
WildcardJob ==
    /\ pc = "job" /\ jobIdx <= Len(lst) /\ lst[jobIdx].source.wild
    /\ globLeft' = Glob(lst[jobIdx].source, disk)
    /\ pc' = "glob"
    /\ UNCHANGED <<disk, inplace, lst, jobIdx, done, handled, copies,
                   afterProc, user_wants_inplace_warning, prompts, processed,
                   passNo>>
    /\ UNCHANGED <<idVars, funVars>>

\* One iteration of `for src in source_root.glob(...)`, in any order.
GlobStep ==
    /\ pc = "glob"
    /\ \E src \in globLeft :
        /\ globLeft' = globLeft \ {src}
        /\ IF src.isdir \/ AlreadyDone(src)
           THEN UNCHANGED <<pc, done, handled, copies, afterProc,
                            user_wants_inplace_warning, prompts, processed>>
           ELSE \E answer \in Answers : HandleSource(src, answer)
    /\ UNCHANGED <<disk, inplace, lst, jobIdx, passNo>>
    /\ UNCHANGED <<idVars, funVars>>

\* The generator is exhausted: next job.
GlobEnd ==
    /\ pc = "glob" /\ globLeft = {}
    /\ pc' = "job"
    /\ jobIdx' = jobIdx + 1
    /\ UNCHANGED <<disk, inplace, lst, globLeft, done, handled, copies,
                   afterProc, user_wants_inplace_warning, prompts, processed,
                   passNo>>
    /\ UNCHANGED <<idVars, funVars>>

\* The loop over lst has ended: process_files returns.
JobsReturn ==
    /\ pc = "job" /\ jobIdx > Len(lst)
    /\ pc' = "done"
    /\ UNCHANGED <<disk, inplace, lst, jobIdx, globLeft, done, handled,
                   copies, afterProc, user_wants_inplace_warning, prompts,
                   processed, passNo>>
    /\ UNCHANGED <<idVars, funVars>>

JobsNext ==
    \/ LiteralJob
    \/ WildcardJob
    \/ GlobStep
    \/ GlobEnd
    \/ JobsReturn

Init == JobsInit /\ IdsIdle /\ FunIdle
Next ==
    \/ LiteralJob
    \/ WildcardJob
    \/ GlobStep
    \/ GlobEnd
    \/ JobsReturn
Spec == Init /\ [][Next]_vars

\* The lists of the later passes: todo_list_id_paths, or explicit targets in
\* its place, and then todo_list_ids.
PassLists(n) ==
    IF n < MaxPasses THEN {todo_list_id_paths, todo_list_explicit}
    ELSE {todo_list_ids}

\* The run calls process_files again; the global
\* user_wants_inplace_warning lives on.
NextPass ==
    /\ pc = "done" /\ passNo < MaxPasses
    /\ pc' = "job"
    /\ lst' \in PassLists(passNo + 1)
    /\ jobIdx' = 1
    /\ done' = {}
    /\ handled' = [f \in Tree |-> <<>>]
    /\ copies' = [f \in Tree |-> 0]
    /\ afterProc' = [f \in Tree |-> 0]
    /\ passNo' = passNo + 1
    /\ UNCHANGED <<disk, inplace, globLeft, user_wants_inplace_warning,
                   prompts, processed>>
    /\ UNCHANGED <<idVars, funVars>>

NextRun ==
    \/ LiteralJob
    \/ WildcardJob
    \/ GlobStep
    \/ GlobEnd
    \/ JobsReturn
    \/ NextPass

SpecRun == Init /\ [][NextRun]_vars

\* The first job of the list, in list order, that matches f (0 if none).
FirstMatch(f) ==
    IF \E n \in 1..Len(lst) : JobMatches(lst[n], f)
    THEN CHOOSE n \in 1..Len(lst) :
            /\ JobMatches(lst[n], f)
            /\ \A m \in 1..(n - 1) : ~JobMatches(lst[m], f)
    ELSE 0

\* C1: within one call of process_files every source file matched by a job
\* is resolved and handed to the handler exactly once, by the first job in
\* list order that matches it, and copied at most once (once when the target
\* is "auto" and differs from the source); no later job copies or processes
\* it again, so no copy follows its processing.
C1_ExactlyOnce ==
    /\ \A f \in Tree :
        /\ Len(handled[f]) <= 1
        /\ copies[f] <= 1
        /\ afterProc[f] = 0
        /\ handled[f] # <<>> => handled[f][1] = FirstMatch(f)
    /\ pc = "done" =>
        \A f \in disk :
            (~f.isdir /\ FirstMatch(f) # 0) =>
                /\ handled[f] = <<FirstMatch(f)>>
                /\ lst[FirstMatch(f)].target = "auto" =>
                       copies[f] = IF f \notin inplace THEN 1 ELSE 0

\* C1 witness: the run over todo_list_paths is over; library.db, which the
\* jobs 1, 3 and 5 match, was handled by job 1 alone and other.db, which the
\* jobs 3 and 5 match, by job 3 alone.
C1_Witness ==
    /\ pc = "done" /\ lst = todo_list_paths
    /\ {LibraryDb, OtherDb} \subseteq disk
    /\ handled[LibraryDb] = <<1>> /\ handled[OtherDb] = <<3>>
    /\ copies[OtherDb] = 1

(***************************************************************************)
(* PART 2.  get_ids and update_db_table_ids                                *)
(*                                                                         *)
(* An identifier is 16 bytes; the model has NIds of them, GuidBytes(1) to   *)
(* GuidBytes(NIds).  The catalog TypedBaseItems has NRows rows; row i has  *)
(* guid GuidBytes(i), the identifier derived from its path before the path *)
(* rewrite pass or assigned otherwise.  A Path is empty, begins with "%",  *)
(* or is <<"path", k>>, the rewritten path whose MD5 (with the row's type) *)
(* is identifier k.                                                        *)
(***************************************************************************)

NRows == 3
NStreams == 2

NIds == NRows + 1
\* The 16 bytes of the n-th identifier of the model.
GuidBytes(n) == [i \in 1..16 |-> (37 * n + 11 * i) % 256]
Guids == {GuidBytes(n) : n \in 1..NIds}

EmptyPath == <<>>
PercentPath == <<"%">>
PathValues == {EmptyPath, PercentPath} \cup {<<"path", k>> : k \in Guids}

\* path.startswith("%")
StartsWithPercent(path) == path # <<>> /\ path[1] = "%"

\* get_dotnet_MD5(item_type + path)
get_dotnet_MD5(path) == path[2]

HexDigits ==
    <<"0", "1", "2", "3", "4", "5", "6", "7", "8", "9",
      "a", "b", "c", "d", "e", "f">>
HexValue(c) == CHOOSE v \in 0..15 : HexDigits[v + 1] = c

\* bid2sid: binascii.b2a_hex(id), two lower-case digits per byte.
bid2sid(id) ==
    [i \in 1..(2 * Len(id)) |->
        IF i % 2 = 1 THEN HexDigits[(id[(i + 1) \div 2] \div 16) + 1]
        ELSE HexDigits[(id[i \div 2] % 16) + 1]]

\* sid2bid: binascii.a2b_hex(id), one byte per two digits.
sid2bid(id) ==
    [i \in 1..(Len(id) \div 2) |->
        16 * HexValue(id[2 * i - 1]) + HexValue(id[2 * i])]

\* A Python slice s[from:to], 0-based, clamped to the string.
Slice(s, from, to) ==
    SubSeq(s, from + 1, IF to < Len(s) THEN to ELSE Len(s))

\* sid2did: the digits in groups of 8, 4, 4, 4 and the rest, joined by "-".
sid2did(id) ==
    Slice(id, 0, 8) \o <<"-">> \o Slice(id, 8, 12) \o <<"-">>
    \o Slice(id, 12, 16) \o <<"-">> \o Slice(id, 16, 20) \o <<"-">>
    \o Slice(id, 20, Len(id))

byte_order == <<3, 2, 1, 0, 5, 4, 7, 6>>

\* A regrouping that reverses the first eight bytes.
convert_ancestor_id_reversed(id) ==
    LET pair(i) == Slice(id, 2 * i, 2 * i + 2)
        n == (Len(id) + 1) \div 2
        F[k \in 0..n] ==
            IF k = 0 THEN <<>>
            ELSE F[k - 1] \o pair(IF k <= 8 THEN 8 - k ELSE k - 1)
    IN  F[n]

\* convert_ancestor_id: the two-digit groups 0 to 7 in the order byte_order,
\* then the groups from 8 on.
convert_ancestor_id(id) ==
    LET pair(i) == Slice(id, 2 * i, 2 * i + 2)
        n == (Len(id) + 1) \div 2
        F[k \in 0..n] ==
            IF k = 0 THEN <<>>
            ELSE F[k - 1] \o pair(IF k <= 8 THEN byte_order[k] ELSE k - 1)
    IN  F[n]

\* The tables, their primary keys (the unique constraints an UPDATE can
\* violate) and the id columns of todo_list_ids, in its order.
Tables == {"TypedBaseItems", "mediastreams"}

PrimaryKey(table) ==
    IF table = "TypedBaseItems" THEN <<"guid">>
    ELSE <<"ItemId", "StreamIndex">>

IdColumn(table, id_type, column) ==
    [table |-> table, id_type |-> id_type, column |-> column]

IdColumns == <<
    IdColumn("TypedBaseItems", "bin", "guid"),
    IdColumn("mediastreams", "bin", "ItemId") >>

\* The initial content of mediastreams: NStreams rows with distinct
\* (ItemId, StreamIndex), rowids in key order.  The rows belong to the items
\* 1 and 2 (any two items, the catalog rows being interchangeable).
StreamKeys == {1, 2} \X {0, 1}
KeyRank(k, S) == Cardinality({x \in S : x[1] < k[1] \/ (x[1] = k[1] /\ x[2] <= k[2])})
StreamRows(S) ==
    {[rowid |-> KeyRank(k, S), ItemId |-> GuidBytes(k[1]), StreamIndex |-> k[2]] : k \in S}

\* Whether the rows satisfy the primary key of the table.
UniqueOK(table, rows) ==
    \A r1, r2 \in rows :
        (\A i \in 1..Len(PrimaryKey(table)) :
            r1[PrimaryKey(table)[i]] = r2[PrimaryKey(table)[i]])
        => r1 = r2

\* UPDATE that writes the arguments in the wrong order.
SqlUpdateSwapped(rows, column, new_id, old_id) ==
    {IF r[column] = new_id THEN [r EXCEPT ![column] = old_id] ELSE r : r \in rows}

\* UPDATE `table` SET `column` = new_id WHERE `column` = old_id
SqlUpdate(rows, column, new_id, old_id) ==
    {IF r[column] = old_id THEN [r EXCEPT ![column] = new_id] ELSE r : r \in rows}

\* SELECT * FROM `table` WHERE `column` = old_id
SqlSelect(rows, column, old_id) == {r \in rows : r[column] = old_id}

\* A DELETE that removes nothing.
SqlDeleteNone(rows, column, old_id) == rows

\* DELETE FROM `table` WHERE `column` = old_id
SqlDelete(rows, column, old_id) == {r \in rows : r[column] # old_id}

\* SELECT DISTINCT `column` from `table`
SqlDistinct(rows, column) == {r[column] : r \in rows}

Range(f) == {f[x] : x \in DOMAIN f}

\* The catalog rows in the order of the SELECT of get_ids.
CatalogRow(n) == CHOOSE r \in db["TypedBaseItems"] : r.rowid = n

\* A loop that also enters the ids that have not changed.
id_replacements_bin_all ==
    LET keep == {r \in db["TypedBaseItems"] :
                    r.Path # EmptyPath /\ ~StartsWithPercent(r.Path)}
    IN  [g \in {r.guid : r \in keep} |->
            get_dotnet_MD5((CHOOSE r \in keep : r.guid = g).Path)]

\* get_ids, the loop over the catalog: id_replacements_bin.
id_replacements_bin ==
    LET keep == {r \in db["TypedBaseItems"] :
                    /\ r.Path # EmptyPath
                    /\ ~StartsWithPercent(r.Path)
                    /\ get_dotnet_MD5(r.Path) # r.guid}
    IN  [g \in {r.guid : r \in keep} |->
            get_dotnet_MD5((CHOOSE r \in keep : r.guid = g).Path)]

\* id_replacements_str
id_replacements_str(bin) ==
    [k \in {bid2sid(g) : g \in DOMAIN bin} |-> bid2sid(bin[sid2bid(k)])]

\* The dict comprehensions of lines 1088 to 1091: {f(k): f(v) for k, v in m};
\* of two keys with one image the later one would stay.
MapBoth(m, f(_)) ==
    [x \in {f(k) : k \in DOMAIN m} |->
        f(m[CHOOSE k \in DOMAIN m : f(k) = x])]

\* A table whose ancestor maps are the plain maps.
IdTablePlain(bin) ==
    LET str == id_replacements_str(bin)
    IN  [bin |-> bin, str |-> str, str_dash |-> MapBoth(str, sid2did),
         ancestor_bin |-> bin, ancestor_str |-> str,
         ancestor_str_dash |-> MapBoth(str, sid2did)]

\* The global `ids` of lines 1087 to 1100 ("str-dash" is str_dash here).
IdTable(bin) ==
    LET str == id_replacements_str(bin)
        ancestor_str == MapBoth(str, convert_ancestor_id)
    IN  [bin |-> bin, str |-> str, str_dash |-> MapBoth(str, sid2did),
         ancestor_bin |-> MapBoth(ancestor_str, sid2bid),
         ancestor_str |-> ancestor_str,
         ancestor_str_dash |-> MapBoth(ancestor_str, sid2did)]

\* The keys of id_replacements_str in insertion order (the catalog order).
StrKeys(bin) ==
    LET F[n \in 0..NRows] ==
            IF n = 0 THEN <<>>
            ELSE IF \E r \in db["TypedBaseItems"] :
                        r.rowid = n /\ r.guid \in DOMAIN bin
                 THEN Append(F[n - 1], bid2sid(CatalogRow(n).guid))
                 ELSE F[n - 1]
    IN  F[NRows]

\* A loop that enters a colliding value once.
DuplicatesOnce(str, keys) ==
    LET F[n \in 0..Len(keys)] ==
            IF n = 0 THEN <<>>
            ELSE LET prev == F[n - 1]
                 IN  IF /\ \E m \in 1..(n - 1) : str[keys[m]] = str[keys[n]]
                        /\ str[keys[n]] \notin Range(prev)
                     THEN Append(prev, str[keys[n]])
                     ELSE prev
    IN  F[Len(keys)]

\* The loop over id_replacements_str.values(): the list `duplicates`.
Duplicates(str, keys) ==
    LET F[n \in 0..Len(keys)] ==
            IF n = 0 THEN <<>>
            ELSE IF \E m \in 1..(n - 1) : str[keys[m]] = str[keys[n]]
                 THEN Append(F[n - 1], str[keys[n]])
                 ELSE F[n - 1]
    IN  F[Len(keys)]

\* old_ids: the keys whose new id is in `duplicates`, listed to the operator.
OldIds(str, dups) == {sid2bid(k) : k \in {x \in DOMAIN str : str[x] \in Range(dups)}}

IdsInit ==
    /\ ipc = "get_ids"
    /\ \E paths \in [1..NRows -> PathValues],
          S \in {T \in SUBSET StreamKeys : Cardinality(T) = NStreams} :
        db = [TypedBaseItems |->
                 {[rowid |-> n, guid |-> GuidBytes(n), Path |-> paths[n]] :
                    n \in 1..NRows},
              mediastreams |-> StreamRows(S)]
    /\ dbFile = db
    /\ preview \in BOOLEAN
    /\ ids = <<>>
    /\ duplicates = <<>>
    /\ reported = {}
    /\ colIdx = 1
    /\ todo = {}
    /\ log = <<>>
    /\ cons = {}

\* A connection its handler returns without con.close(): it is closed
\* when the interpreter finalises the object, at the return or later, so
\* after the return it is open or not.
Unclosed(name) == {{}, {name}}

\* get_ids up to its prompt: the maps, the duplicates, the listing.
GetIds ==
    /\ ipc = "get_ids"
    /\ LET bin == id_replacements_bin
           str == id_replacements_str(bin)
           dups == Duplicates(str, StrKeys(bin))
       IN  /\ ids' = IdTable(bin)
           /\ duplicates' = dups
           /\ reported' = IF dups # <<>> THEN OldIds(str, dups) ELSE {}
           /\ ipc' = IF dups # <<>> THEN "prompt" ELSE "snapshot"
           \* con is closed in the branch `if duplicates` only, and so is
           \* the connection to the source database opened there.
           /\ cons' \in IF dups # <<>> THEN {cons}
                         ELSE {cons \cup u : u \in Unclosed("get_ids")}
    /\ UNCHANGED <<db, dbFile, preview, colIdx, todo, log>>
    /\ UNCHANGED <<jobVars, funVars>>

\* input("Press Enter to continue or CTRL+C to abort. "): Enter.
PromptEnter ==
    /\ ipc = "prompt"
    /\ ipc' = "snapshot"
    /\ UNCHANGED <<db, dbFile, preview, ids, duplicates, reported, colIdx,
                   todo, log, cons>>
    /\ UNCHANGED <<jobVars, funVars>>

\* CTRL+C at the prompt: KeyboardInterrupt ends the run.
PromptAbort ==
    /\ ipc = "prompt"
    /\ ipc' = "aborted"
    /\ UNCHANGED <<db, dbFile, preview, ids, duplicates, reported, colIdx,
                   todo, log, cons>>
    /\ UNCHANGED <<jobVars, funVars>>

\* update_db_table_ids, per column: rows = SELECT DISTINCT.
Snapshot ==
    /\ ipc = "snapshot" /\ colIdx <= Len(IdColumns)
    /\ todo' = SqlDistinct(db[IdColumns[colIdx].table], IdColumns[colIdx].column)
    /\ ipc' = "visit"
    \* sqlite3.connect(target) on entry, before the first column.
    /\ cons' = IF colIdx = 1 THEN cons \cup {"update_db_table_ids"} ELSE cons
    /\ UNCHANGED <<db, dbFile, preview, ids, duplicates, reported, colIdx, log>>
    /\ UNCHANGED <<jobVars, funVars>>

Event(op, c, old_id, rows) ==
    [op |-> op, table |-> c.table, column |-> c.column, old_id |-> old_id,
     rows |-> rows]

\* One iteration of `for old_id, in rows`, the rows in any order: the UPDATE
\* keyed on the value or, on sqlite3.IntegrityError, the DELETE.
Visit ==
    /\ ipc = "visit"
    /\ \E old_id \in todo :
        LET c == IdColumns[colIdx]
            rows == db[c.table]
        IN  /\ todo' = todo \ {old_id}
            /\ IF old_id \in DOMAIN ids[c.id_type]
               THEN LET new_id == ids[c.id_type][old_id]
                        upd == SqlUpdate(rows, c.column, new_id, old_id)
                    IN  IF UniqueOK(c.table, upd)
                        THEN /\ db' = [db EXCEPT ![c.table] = upd]
                             /\ log' = Append(log,
                                   Event("UPDATE", c, old_id,
                                         {r.rowid : r \in rows \ upd}))
                        ELSE /\ db' = [db EXCEPT ![c.table] =
                                          SqlDelete(rows, c.column, old_id)]
                             /\ log' = Append(log,
                                   Event("DELETE", c, old_id,
                                         {r.rowid : r \in
                                            SqlSelect(rows, c.column, old_id)}))
               ELSE UNCHANGED <<db, log>>
    /\ UNCHANGED <<ipc, dbFile, preview, ids, duplicates, reported, colIdx,
                   cons>>
    /\ UNCHANGED <<jobVars, funVars>>

\* The loop over the snapshot has ended: next column.
NextColumn ==
    /\ ipc = "visit" /\ todo = {}
    /\ colIdx' = colIdx + 1
    /\ ipc' = "snapshot"
    /\ UNCHANGED <<db, dbFile, preview, ids, duplicates, reported, todo, log,
                   cons>>
    /\ UNCHANGED <<jobVars, funVars>>

\* A close that commits whatever the preview flag says.
CommitCloseInPreview ==
    /\ ipc = "snapshot" /\ colIdx > Len(IdColumns)
    /\ dbFile' = db
    /\ ipc' = "done"
    /\ cons' = cons \ {"update_db_table_ids"}
    /\ UNCHANGED <<db, preview, ids, duplicates, reported, colIdx, todo, log>>
    /\ UNCHANGED <<jobVars, funVars>>

\* After the last column: con.commit() unless preview, con.close().
CommitClose ==
    /\ ipc = "snapshot" /\ colIdx > Len(IdColumns)
    /\ dbFile' = IF preview THEN dbFile ELSE db
    /\ ipc' = "done"
    /\ cons' = cons \ {"update_db_table_ids"}
    /\ UNCHANGED <<db, preview, ids, duplicates, reported, colIdx, todo, log>>
    /\ UNCHANGED <<jobVars, funVars>>

IdsNext ==
    \/ GetIds
    \/ PromptEnter
    \/ PromptAbort
    \/ Snapshot
    \/ Visit
    \/ NextColumn
    \/ CommitClose

InitIds == JobsIdle /\ IdsInit /\ FunIdle
SpecIds == InitIds /\ [][IdsNext]_vars

\* The statements of the pass on the guid column of the catalog.
IsGuidEvent(e) == e.table = "TypedBaseItems" /\ e.column = "guid"

\* The rowids of a table that a successful UPDATE of the pass changed.
UpdatedRows(table) ==
    UNION {log[i].rows : i \in {j \in 1..Len(log) :
                                  log[j].op = "UPDATE" /\ log[j].table = table}}

\* C2: for every collision get_ids detected, after the id rewrite pass
\* exactly one row carrying the new identifier remains in TypedBaseItems:
\* the first colliding row encountered is updated, every later one deleted.
C2_OneSurvivor ==
    (ipc = "done" /\ ~preview) =>
        \A n \in Range(duplicates) :
            LET group == {o \in DOMAIN ids["bin"] : ids["bin"][o] = sid2bid(n)}
                evs == {i \in 1..Len(log) :
                           IsGuidEvent(log[i]) /\ log[i].old_id \in group}
            IN  /\ Cardinality({r \in dbFile["TypedBaseItems"] :
                                   r.guid = sid2bid(n)}) = 1
                /\ \E i \in evs :
                       /\ log[i].op = "UPDATE"
                       /\ \A j \in evs \ {i} : j > i /\ log[j].op = "DELETE"

\* C3 as claimed: once the pass has finished, no configured id column of a
\* row it updated holds an old identifier (a key of the id table).
C3_NoOldIdLeft ==
    (ipc = "done" /\ ~preview) =>
        \A n \in 1..Len(IdColumns) :
            LET c == IdColumns[n] IN
            \A r \in dbFile[c.table] :
                r.rowid \in UpdatedRows(c.table)
                => r[c.column] \notin DOMAIN ids[c.id_type]

\* C3 as amended: once the pass has finished, no configured id column of a
\* row it updated holds an old identifier, except an old identifier that is
\* also the new identifier of an entry of the id table.
C3_NoOldIdLeftUnlessNew ==
    (ipc = "done" /\ ~preview) =>
        \A n \in 1..Len(IdColumns) :
            LET c == IdColumns[n] IN
            \A r \in dbFile[c.table] :
                (/\ r.rowid \in UpdatedRows(c.table)
                 /\ r[c.column] \in DOMAIN ids[c.id_type])
                => r[c.column] \in Range(ids[c.id_type])

\* C3 witness: the pass is over and committed, it updated a row of each
\* table, and an updated catalog row now carries an identifier that is both
\* a new and an old one.
C3_Witness ==
    /\ ipc = "done" /\ ~preview
    /\ UpdatedRows("mediastreams") # {}
    /\ \E r \in dbFile["TypedBaseItems"] :
        /\ r.rowid \in UpdatedRows("TypedBaseItems")
        /\ r.guid \in DOMAIN ids["bin"]

\* C4: every DELETE of the pass concerns an old identifier that get_ids
\* listed to the operator as part of a collision.
C4_DeletesWereReported ==
    \A i \in 1..Len(log) :
        log[i].op = "DELETE" => log[i].old_id \in reported

(***************************************************************************)
(* PART 3.  recursive_root_path_replacer                                   *)
(*                                                                         *)
(* A string is a sequence of one-character strings.  Path is PosixPath.    *)
(***************************************************************************)

MaxLen == 5

\* str.split(sep): the pieces between the separators, empty ones kept.
Split(s, sep) ==
    LET cuts == {0} \cup {i \in 1..Len(s) : s[i] = sep} \cup {Len(s) + 1}
        cut(k) == CHOOSE c \in cuts : Cardinality({x \in cuts : x < c}) = k
    IN  [k \in 1..(Cardinality(cuts) - 1) |->
            SubSeq(s, cut(k - 1) + 1, cut(k) - 1)]

\* sep.join(pieces)
Join(pieces, sep) ==
    LET F[i \in 0..Len(pieces)] ==
            IF i = 0 THEN <<>>
            ELSE IF i = 1 THEN pieces[1]
                 ELSE F[i - 1] \o <<sep>> \o pieces[i]
    IN  F[Len(pieces)]

\* str.replace("/", slash)
ReplaceSlash(s, slash) == [i \in 1..Len(s) |-> IF s[i] = "/" THEN slash ELSE s[i]]

IsPart(x) == x # <<>> /\ x # <<".">>

\* Path(d): the root ("", "/", or "//" for exactly two leading slashes) and
\* the components, empty and "." components dropped.
Path(d) ==
    [root |-> IF Len(d) >= 1 /\ d[1] = "/"
              THEN IF Len(d) >= 2 /\ d[2] = "/" /\ ~(Len(d) >= 3 /\ d[3] = "/")
                   THEN <<"/", "/">> ELSE <<"/">>
              ELSE <<>>,
     parts |-> SelectSeq(Split(d, "/"), IsPart)]

\* p.as_posix()
as_posix(p) ==
    IF p.root = <<>> /\ p.parts = <<>> THEN <<".">>
    ELSE p.root \o Join(p.parts, "/")

\* An ancestor test on the text of the two paths (str.startswith).
is_relative_to_textual(p, src) == IsPrefix(as_posix(src), as_posix(p))

\* An ancestor test that compares the components and not the anchor.
is_relative_to_any_anchor(p, src) == IsPrefix(src.parts, p.parts)

\* p.is_relative_to(src): same anchor, and the components of src begin p's.
is_relative_to(p, src) == p.root = src.root /\ IsPrefix(src.parts, p.parts)

\* A join that loses the anchor of the destination.
RebaseUnanchored(dst, p, src) ==
    [root |-> <<>>,
     parts |-> Path(dst).parts \o SubSeq(p.parts, Len(src.parts) + 1, Len(p.parts))]

\* dst / p.relative_to(src)
Rebase(dst, p, src) ==
    [root |-> Path(dst).root,
     parts |-> Path(dst).parts \o SubSeq(p.parts, Len(src.parts) + 1, Len(p.parts))]

\* A replacement dict: its items in insertion order.  The path entries
\* follow the option key "target_path_slash", which the loop visits as well.
Key_target_path_slash ==
    <<"t", "a", "r", "g", "e", "t", "_", "p", "a", "t", "h", "_", "s", "l",
      "a", "s", "h">>
Item(k, v) == [key |-> k, value |-> v]
Dict(slash, items) == <<Item(Key_target_path_slash, <<slash>>)>> \o items
Get(to_replace, k) ==
    (CHOOSE i \in 1..Len(to_replace) : to_replace[i].key = k)

\* The loop `for src, dst in to_replace.items()` from item n on: the index
\* of the first item whose key is an ancestor of p, or 0.
FirstRelative(p, to_replace) ==
    LET F[n \in 1..(Len(to_replace) + 1)] ==
            IF n > Len(to_replace) THEN 0
            ELSE IF is_relative_to(p, Path(to_replace[n].key)) THEN n
                 ELSE F[n + 1]
    IN  F[1]

\* recursive_root_path_replacer(d, to_replace) for a string d.
recursive_root_path_replacer(d, to_replace) ==
    LET p == Path(d)
        n == FirstRelative(p, to_replace)
        slash == to_replace[Get(to_replace, Key_target_path_slash)].value[1]
    IN  IF n # 0
        THEN [d |-> ReplaceSlash(
                        as_posix(Rebase(to_replace[n].value, p,
                                        Path(to_replace[n].key))), slash),
              modified |-> 1, ignored |-> 0]
        ELSE [d |-> d, modified |-> 0, ignored |-> 1]

\* The strings of the inputs.
S_a == <<"/", "a">>
S_ab == <<"/", "a", "/", "b">>
S_ba == <<"/", "b", "/", "a">>
S_rel_a == <<"a">>
S_b == <<"/", "b">>
S_bb == <<"/", "b", "/", "b">>
S_aa == <<"/", "a", "/", "a">>
S_x == <<"/", "x">>
S_y == <<"/", "y">>
S_abc_txt == <<"/", "a", "/", "b", "/", "c", ".", "t", "x", "t">>
S_ac_txt == <<"/", "a", "/", "c", ".", "t", "x", "t">>
S_abcd == <<"/", "a", "/", "b", "c", "/", "d">>
S_x_c_txt == <<"/", "x", "/", "c", ".", "t", "x", "t">>
S_y_c_txt == <<"/", "y", "/", "c", ".", "t", "x", "t">>

Chars == {"/", "a", "b"}
Strings == UNION {[1..n -> Chars] : n \in 0..MaxLen}
ExampleStrings == {S_abc_txt, S_ac_txt, S_abcd}

SrcPool == {S_a, S_ab, S_ba, S_rel_a}
DstPool == {S_b, S_bb, S_aa}
ItemPool == {Item(k, v) : k \in SrcPool, v \in DstPool}

\* The mappings of the examples of the specification.
ItemsXY == <<Item(S_ab, S_x), Item(S_a, S_y)>>
ItemsX == <<Item(S_ab, S_x)>>

\* A dict holds a key once.
ItemLists ==
    {<<i>> : i \in ItemPool}
    \cup {<<ij[1], ij[2]>> :
            ij \in {x \in ItemPool \X ItemPool : x[1].key # x[2].key}}
    \cup {ItemsXY, ItemsX}

Slashes == {"/", "\\"}

RootInit ==
    /\ fpc = "call"
    /\ \E d \in Strings \cup ExampleStrings, items \in ItemLists,
          slash \in Slashes :
        fIn = [d |-> d, to_replace |-> Dict(slash, items)]
    /\ fOut = <<>>

\* recursive_root_path_replacer on the input.
RootReplace ==
    /\ fpc = "call"
    /\ fOut' = <<recursive_root_path_replacer(fIn.d, fIn.to_replace)>>
    /\ fpc' = "again"
    /\ fIn' = fIn
    /\ UNCHANGED <<jobVars, idVars>>

\* recursive_root_path_replacer on its own result, with the same mapping.
RootReplaceAgain ==
    /\ fpc = "again"
    /\ fOut' = Append(fOut, recursive_root_path_replacer(fOut[1].d, fIn.to_replace))
    /\ fpc' = "done"
    /\ fIn' = fIn
    /\ UNCHANGED <<jobVars, idVars>>

RootNext ==
    \/ RootReplace
    \/ RootReplaceAgain

InitRootPath == JobsIdle /\ IdsIdle /\ RootInit
SpecRootPath == InitRootPath /\ [][RootNext]_vars

\* The normalised text of a path string.
Normal(d) == as_posix(Path(d))

\* src is d or an ancestor of d: the text of src begins the text of d and
\* ends where a segment of d ends.
SegmentAncestor(src, d) ==
    /\ IsPrefix(Normal(src), Normal(d))
    /\ \/ Len(Normal(d)) = Len(Normal(src))
       \/ Normal(d)[Len(Normal(src)) + 1] = "/"

Hits(d, to_replace) ==
    {i \in 1..Len(to_replace) : SegmentAncestor(to_replace[i].key, d)}

FirstHit(d, to_replace) ==
    CHOOSE i \in Hits(d, to_replace) : \A j \in Hits(d, to_replace) : i <= j

\* C5: the path is rewritten with the first entry, in insertion order, whose
\* source prefix is the path or an ancestor of it segment by segment: the
\* result is the destination followed by the rest of the path; a path that no
\* source prefix begins on a segment boundary is returned as it was.  With
\* [(/a/b, /x), (/a, /y)], /a/b/c.txt gives /x/c.txt and /a/c.txt gives
\* /y/c.txt; with [(/a/b, /x)], /a/bc/d is returned unchanged.
C5_FirstAncestorWins ==
    fpc # "call" =>
        LET d == fIn.d
            M == fIn.to_replace
            slash == M[1].value[1]
            out == fOut[1].d
        IN  /\ IF Hits(d, M) = {}
               THEN out = d
               ELSE LET i == FirstHit(d, M)
                        rest == SubSeq(Normal(d), Len(Normal(M[i].key)) + 1,
                                       Len(Normal(d)))
                    IN  out = ReplaceSlash(Normal(M[i].value \o rest), slash)
            /\ (M = Dict("/", ItemsXY) /\ d = S_abc_txt) => out = S_x_c_txt
            /\ (M = Dict("/", ItemsXY) /\ d = S_ac_txt) => out = S_y_c_txt
            /\ (M = Dict("/", ItemsX) /\ d = S_abcd) => out = S_abcd

\* Two entries are ancestors of the path and the first one rewrote it.
C5_Witness ==
    /\ fpc = "again"
    /\ Cardinality(Hits(fIn.d, fIn.to_replace)) = 2
    /\ FirstHit(fIn.d, fIn.to_replace) = 2
    /\ fOut[1].d # fIn.d

\* No source prefix is a destination or an ancestor of one.
NoDestinationMatched(M) ==
    \A i, j \in 2..Len(M) : ~SegmentAncestor(M[j].key, M[i].value)

\* No destination is a source prefix or an ancestor of one.
NoSourceBelowDestination(M) ==
    \A i, j \in 2..Len(M) : ~SegmentAncestor(M[i].value, M[j].key)

MaxParts == 4

IdChars ==
    {"0", "1", "2", "3", "4", "5", "6", "7", "8", "9",
     "a", "b", "c", "d", "e", "f", "-"}

\* set(s).issubset(set("0123456789abcdef-"))
IdShaped(s) == \A i \in 1..Len(s) : s[i] \in IdChars

\* p.name
PathName(p) == IF p.parts = <<>> THEN <<>> ELSE p.parts[Len(p.parts)]

\* p.parent
PathParent(p) ==
    [root |-> p.root,
     parts |-> IF p.parts = <<>> THEN <<>>
               ELSE SubSeq(p.parts, 1, Len(p.parts) - 1)]

\* The suffix of a file name: from its last dot on, when that dot is neither
\* the first nor the last character.
NameSuffix(nm) ==
    LET dots == {i \in 1..Len(nm) : nm[i] = "."}
        last == CHOOSE i \in dots : \A j \in dots : j <= i
    IN  IF dots # {} /\ 1 < last /\ last < Len(nm)
        THEN SubSeq(nm, last, Len(nm)) ELSE <<>>

\* p.suffix and p.stem
PathSuffix(p) == NameSuffix(PathName(p))
PathStem(p) == SubSeq(PathName(p), 1, Len(PathName(p)) - Len(PathSuffix(p)))

\* The outcome of an operation that raises ValueError.
Raised == [raised |-> TRUE, error |-> "ValueError"]

\* p.with_name(nm): raises when p has no name or nm is not one component.
with_name(p, nm) ==
    IF \/ p.parts = <<>>
       \/ nm = <<>>
       \/ nm = <<".">>
       \/ \E i \in 1..Len(nm) : nm[i] = "/"
    THEN Raised
    ELSE [root |-> p.root,
          parts |-> [p.parts EXCEPT ![Len(p.parts)] = nm]]

\* A stem replacement that loses the suffix.
with_stem_only(p, st) == with_name(p, st)

\* p.with_stem(st)
with_stem(p, st) == with_name(p, st \o PathSuffix(p))

\* to_replace.get(k, "")
DictGet(to_replace, k) ==
    IF k \in DOMAIN to_replace THEN to_replace[k] ELSE <<>>

\* The loop over p.parts[:-1]: src and dst when it ends.  The anchor "/" of
\* an absolute path is one of the parts the loop visits and is not id-shaped.
ScanParts(p, to_replace, dst0) ==
    LET n == IF p.parts = <<>> THEN 0 ELSE Len(p.parts) - 1
        F[i \in 0..n] ==
            IF i = 0 THEN [src |-> <<>>, dst |-> dst0, brk |-> FALSE]
            ELSE LET prev == F[i - 1]
                 IN  IF prev.brk THEN prev
                     ELSE IF IdShaped(p.parts[i])
                          THEN [src |-> p.parts[i],
                                dst |-> DictGet(to_replace, p.parts[i]),
                                brk |-> DictGet(to_replace, p.parts[i]) # <<>>]
                          ELSE prev
    IN  F[n]

\* while p.name != src: p = p.parent
RECURSIVE WalkUp(_, _)
WalkUp(p, src) == IF PathName(p) = src THEN p ELSE WalkUp(PathParent(p), src)

\* p / q for a relative q given by its parts.
PathJoin(p, qparts) == [root |-> p.root, parts |-> p.parts \o qparts]

Returned(d, modified, ignored) ==
    [raised |-> FALSE, d |-> d, modified |-> modified, ignored |-> ignored]

\* The directory branch, lines 562 to 582.
ReplaceDirectory(p0, src, dst) ==
    LET pk == WalkUp(p0, src)
        q == SubSeq(p0.parts, Len(pk.parts) + 1, Len(p0.parts))
        p1 == with_name(pk, dst)
    IN  IF p1 = Raised THEN Raised
        ELSE IF IsPrefix(PathName(PathParent(p1)), src)
             THEN LET q2 == <<PathName(p1)>> \o q
                      p2 == PathParent(p1)
                      p3 == with_name(p2, SubSeq(dst, 1, Len(PathName(p2))))
                  IN  IF p3 = Raised THEN Raised ELSE PathJoin(p3, q2)
             ELSE PathJoin(p1, q)

\* recursive_id_path_replacer(d, to_replace) for a string d.
recursive_id_path_replacer(d, to_replace) ==
    LET p0 == Path(d)
        slash == to_replace[Key_target_path_slash][1]
        dst1 == IF IdShaped(PathStem(p0))
                THEN DictGet(to_replace, PathStem(p0)) ELSE <<>>
        scan == ScanParts(p0, to_replace, dst1)
        p == IF dst1 # <<>> THEN with_stem(p0, dst1)
             ELSE ReplaceDirectory(p0, scan.src, scan.dst)
    IN  IF dst1 = <<>> /\ scan.dst = <<>> THEN Returned(d, 0, 1)
        ELSE IF p = Raised THEN Raised
             ELSE Returned(ReplaceSlash(as_posix(p), slash), 1, 0)

\* Path components of the inputs.
N_7 == <<"7">>
N_71 == <<"7", "1">>
N_ab == <<"a", "b">>
N_p == <<"p">>
N_71_j == <<"7", "1", ".", "j">>
N_p_j == <<"p", ".", "j">>
N_22 == <<"2", "2">>

Names == {N_7, N_71, N_ab, N_p, N_71_j, N_p_j}
NameLists == UNION {[1..n -> Names] : n \in 1..MaxParts}

\* The id maps, with the option key the dict carries.
IdMaps == {(N_71 :> N_22), (N_71 :> N_22) @@ (N_ab :> N_71)}
IdDict(slash, R) == (Key_target_path_slash :> <<slash>>) @@ R

IdPathInit ==
    /\ fpc = "call"
    /\ \E names \in NameLists, anchor \in {<<>>, <<"/">>}, R \in IdMaps,
          slash \in Slashes :
        fIn = [d |-> anchor \o Join(names, "/"), to_replace |-> IdDict(slash, R)]
    /\ fOut = <<>>

\* A call of recursive_id_path_replacer that returns.
IdReplaceReturn ==
    /\ fpc = "call"
    /\ ~recursive_id_path_replacer(fIn.d, fIn.to_replace).raised
    /\ fOut' = <<recursive_id_path_replacer(fIn.d, fIn.to_replace)>>
    /\ fpc' = "returned"
    /\ fIn' = fIn
    /\ UNCHANGED <<jobVars, idVars>>

\* A call of recursive_id_path_replacer that ends in an exception.
IdReplaceRaise ==
    /\ fpc = "call"
    /\ recursive_id_path_replacer(fIn.d, fIn.to_replace).raised
    /\ fOut' = <<recursive_id_path_replacer(fIn.d, fIn.to_replace)>>
    /\ fpc' = "raised"
    /\ fIn' = fIn
    /\ UNCHANGED <<jobVars, idVars>>

IdPathNext ==
    \/ IdReplaceReturn
    \/ IdReplaceRaise

InitIdPath == JobsIdle /\ IdsIdle /\ IdPathInit
SpecIdPath == InitIdPath /\ [][IdPathNext]_vars

\* The components of the input and of the returned path.
InParts == Path(fIn.d).parts
OutParts ==
    SelectSeq(Split(fOut[1].d, fIn.to_replace[Key_target_path_slash][1]),
              LAMBDA x : x # <<>>)
Leaf == InParts[Len(InParts)]
LeafStem == SubSeq(Leaf, 1, Len(Leaf) - Len(NameSuffix(Leaf)))
IdKeys == DOMAIN fIn.to_replace \ {Key_target_path_slash}

\* The stem is id-shaped and a key of the id map.
StemCase == IdShaped(LeafStem) /\ LeafStem \in IdKeys

\* The directory components, leaf excluded, that are id-shaped keys.
KeyDirs == {i \in 1..(Len(InParts) - 1) : InParts[i] \in IdKeys /\ IdShaped(InParts[i])}
FirstKeyDir == CHOOSE i \in KeyDirs : \A j \in KeyDirs : i <= j

\* The deepest directory component with the name of the first key.
LastSameDir ==
    CHOOSE i \in 1..(Len(InParts) - 1) :
        /\ InParts[i] = InParts[FirstKeyDir]
        /\ \A j \in 1..(Len(InParts) - 1) : InParts[j] = InParts[i] => j <= i

\* C7: an id-shaped stem that is a key is replaced and nothing else is;
\* otherwise the first directory component that is an id-shaped key is
\* replaced, and no component other than it and its parent changes; without
\* either the path is returned as it was.
C7_StemElseFirstDirectory ==
    fpc = "returned" =>
        IF StemCase
        THEN OutParts = [InParts EXCEPT ![Len(InParts)] =
                            fIn.to_replace[LeafStem] \o NameSuffix(Leaf)]
        ELSE IF KeyDirs = {}
             THEN fOut[1].d = fIn.d
             ELSE /\ Len(OutParts) = Len(InParts)
                  /\ OutParts[FirstKeyDir] = fIn.to_replace[InParts[FirstKeyDir]]
                  /\ \A j \in 1..Len(InParts) :
                        j \notin {FirstKeyDir, FirstKeyDir - 1}
                            => OutParts[j] = InParts[j]

\* C8: a call that rewrites a directory component returns a path; in it the
\* parent of the rewritten component is the prefix of dst of the parent's
\* length when the parent's name is a non-empty, shorter prefix of src, and
\* is unchanged otherwise.
C8_BucketParent ==
    (fpc # "call" /\ ~StemCase /\ KeyDirs # {}) =>
        /\ fpc = "returned"
        /\ LET k == LastSameDir
               src == InParts[k]
               dst == fIn.to_replace[src]
               parent == IF k > 1 THEN InParts[k - 1] ELSE <<>>
           IN  /\ OutParts[k] = dst
               /\ k > 1 =>
                    OutParts[k - 1] =
                        IF parent # <<>> /\ Len(parent) < Len(src)
                           /\ IsPrefix(parent, src)
                        THEN SubSeq(dst, 1, Len(parent))
                        ELSE parent

\* C9: in a returned path the number of components is the input's, every
\* component that differs from the input's is id-shaped in the input (for
\* the leaf: its stem is), and the leaf keeps its extension.
C9_OnlyIdShapedChange ==
    (fpc = "returned" /\ fOut[1].modified = 1) =>
        /\ Len(OutParts) = Len(InParts)
        /\ \A j \in 1..Len(InParts) :
              OutParts[j] # InParts[j] =>
                  IF j = Len(InParts) THEN IdShaped(LeafStem)
                  ELSE IdShaped(InParts[j])
        /\ NameSuffix(OutParts[Len(OutParts)]) = NameSuffix(Leaf)
        /\ (fOut[1].d[1] = fIn.to_replace[Key_target_path_slash][1])
              <=> (fIn.d[1] = "/")

\* A stem with an extension was replaced below a directory that is not
\* id-shaped.
C9_Witness ==
    /\ fpc = "returned"
    /\ fOut[1].modified = 1
    /\ StemCase
    /\ NameSuffix(Leaf) # <<>>
    /\ \E j \in 1..(Len(InParts) - 1) : ~IdShaped(InParts[j])

(***************************************************************************)
(* PART 5.  update_db_table: the image columns                             *)
(*                                                                         *)
(* An image column holds entries separated by "|"; an entry holds fields   *)
(* separated by "*", the first of them a path.  replace_func is            *)
(* recursive_root_path_replacer.                                           *)
(***************************************************************************)

MaxImgLen == 5

\* One entry of the loop of lines 706 to 714: the new entry and the counts.
ImgEntry(img_properties, replace_dict) ==
    IF img_properties = <<>>
    THEN [img |-> img_properties, modified |-> 0, ignored |-> 0]
    ELSE LET props == Split(img_properties, "*")
             r == recursive_root_path_replacer(props[1], replace_dict)
         IN  [img |-> Join([props EXCEPT ![1] = r.d], "*"),
              modified |-> r.modified, ignored |-> r.ignored]

\* The sum of a field over a sequence of records.
SumOf(recs, field) ==
    LET F[i \in 0..Len(recs)] ==
            IF i = 0 THEN 0 ELSE F[i - 1] + recs[i][field]
    IN  F[Len(recs)]

\* An entry whose every field goes through replace_func.
UpdateImagesAllFields(imgs, replace_dict) ==
    LET entries == Split(imgs, "|")
        field(x) == recursive_root_path_replacer(x, replace_dict).d
        each(e) == IF e = <<>> THEN e
                   ELSE Join([k \in 1..Len(Split(e, "*")) |->
                                 field(Split(e, "*")[k])], "*")
    IN  [imgs |-> Join([j \in 1..Len(entries) |-> each(entries[j])], "|"),
         modified |-> 0, ignored |-> 0]

\* Lines 705 to 716 for one image column that is not empty.
UpdateImages(imgs, replace_dict) ==
    LET entries == Split(imgs, "|")
        done_ == [j \in 1..Len(entries) |-> ImgEntry(entries[j], replace_dict)]
    IN  [imgs |-> Join([j \in 1..Len(entries) |-> done_[j].img], "|"),
         modified |-> SumOf(done_, "modified"),
         ignored |-> SumOf(done_, "ignored")]

ImgChars == {"|", "*", "/", "a"}
ImgStrings == UNION {[1..n -> ImgChars] : n \in 0..MaxImgLen}
ImgDicts ==
    {Dict(slash, items) :
        slash \in Slashes, items \in {<<>>, <<Item(S_rel_a, <<"b">>)>>}}

ImagesInit ==
    /\ fpc = "row"
    /\ \E imgs \in ImgStrings, replace_dict \in ImgDicts :
        fIn = [imgs |-> imgs, replace_dict |-> replace_dict]
    /\ fOut = <<>>

\* `if not imgs: continue`: the column gets no new value.
ImagesSkip ==
    /\ fpc = "row"
    /\ fIn.imgs = <<>>
    /\ fOut' = <<[imgs |-> fIn.imgs, modified |-> 0, ignored |-> 0]>>
    /\ fpc' = "skipped"
    /\ fIn' = fIn
    /\ UNCHANGED <<jobVars, idVars>>

\* The column is rewritten and its new value stored with the row.
ImagesStore ==
    /\ fpc = "row"
    /\ fIn.imgs # <<>>
    /\ fOut' = <<UpdateImages(fIn.imgs, fIn.replace_dict)>>
    /\ fpc' = "stored"
    /\ fIn' = fIn
    /\ UNCHANGED <<jobVars, idVars>>

ImagesNext ==
    \/ ImagesSkip
    \/ ImagesStore

InitImages == JobsIdle /\ IdsIdle /\ ImagesInit
SpecImages == InitImages /\ [][ImagesNext]_vars

\* The leaf transformer of the row.
Leaf_f(x) == recursive_root_path_replacer(x, fIn.replace_dict).d

\* The descriptor read character by character: the text before the first
\* "*" of an entry goes through f when the entry is not empty, every other
\* character is copied.
Expected(s) ==
    LET flush(st) == IF st.first /\ st.cur # <<>> THEN Leaf_f(st.cur) ELSE <<>>
        F[i \in 0..Len(s)] ==
            IF i = 0 THEN [out |-> <<>>, cur |-> <<>>, first |-> TRUE]
            ELSE LET st == F[i - 1]
                 IN  IF s[i] = "|"
                     THEN [out |-> st.out \o flush(st) \o <<"|">>,
                           cur |-> <<>>, first |-> TRUE]
                     ELSE IF ~st.first
                     THEN [st EXCEPT !.out = Append(@, s[i])]
                     ELSE IF s[i] = "*"
                     THEN [out |-> st.out \o Leaf_f(st.cur) \o <<"*">>,
                           cur |-> <<>>, first |-> FALSE]
                     ELSE [st EXCEPT !.cur = Append(@, s[i])]
    IN  F[Len(s)].out \o flush(F[Len(s)])

\* C10: the stored descriptor is s with the first "*"-separated field of
\* every non-empty "|"-separated entry replaced by f(field); the other
\* fields, the separators and the empty entries are those of s, and when f
\* changes no field the stored descriptor is s.
C10_FirstFieldOnly ==
    fpc # "row" =>
        /\ fOut[1].imgs = Expected(fIn.imgs)
        /\ Len(fIn.replace_dict) = 1 => fOut[1].imgs = fIn.imgs

\* A stored descriptor with an empty entry and an entry of several fields
\* whose path was replaced.
C10_Witness ==
    /\ fpc = "stored"
    /\ fOut[1].imgs # fIn.imgs
    /\ <<>> \in Range(Split(fIn.imgs, "|"))
    /\ \E e \in Range(Split(fIn.imgs, "|")) : Len(Split(e, "*")) > 1

(***************************************************************************)
(* Further properties of get_ids and update_db_table_ids (SpecIds)         *)
(***************************************************************************)

\* C11: a value of the snapshot that is a key of the id table gets one
\* statement: the UPDATE keyed on it, which changes every row holding it and
\* no other row, or, when the rows so changed would break the primary key,
\* the DELETE of every row holding it, each of them logged and none of them
\* left behind with a new value.  A value that is no key changes nothing, and
\* no value gets a second statement.
C11_UpdateOrDeleteAll ==
    /\ [](\A i, j \in 1..Len(log) :
            (/\ log[i].table = log[j].table
             /\ log[i].column = log[j].column
             /\ log[i].old_id = log[j].old_id) => i = j)
    /\ [][ipc = "visit" /\ todo' # todo =>
            LET c == IdColumns[colIdx]
                v == CHOOSE x \in todo : x \notin todo'
                holding == {r \in db[c.table] : r[c.column] = v}
                others == db[c.table] \ holding
            IN  IF v \notin DOMAIN ids[c.id_type]
                THEN db' = db /\ log' = log
                ELSE LET new_id == ids[c.id_type][v]
                         changed == {[r EXCEPT ![c.column] = new_id] : r \in holding}
                         e == log'[Len(log')]
                     IN  /\ Len(log') = Len(log) + 1
                         /\ SubSeq(log', 1, Len(log)) = log
                         /\ e.table = c.table /\ e.column = c.column
                         /\ e.old_id = v
                         /\ e.rows = {r.rowid : r \in holding}
                         /\ \A t \in Tables \ {c.table} : db'[t] = db[t]
                         /\ IF UniqueOK(c.table, others \cup changed)
                            THEN /\ e.op = "UPDATE"
                                 /\ db'[c.table] = others \cup changed
                            ELSE /\ e.op = "DELETE"
                                 /\ db'[c.table] = others
       ]_vars

\* An UPDATE changed two rows holding one value together, and a DELETE
\* removed the rows of another value after its UPDATE broke the primary key.
C11_Witness ==
    /\ \E i \in 1..Len(log) : log[i].op = "UPDATE" /\ Cardinality(log[i].rows) = 2
    /\ \E i \in 1..Len(log) : log[i].op = "DELETE" /\ log[i].rows # {}

(***************************************************************************)
(* Properties of get_target (Spec, SpecRun)                                *)
(***************************************************************************)

\* The file the step hands to get_target, if it does.
Resolved(f) == handled'[f] # handled[f] /\ handled'[f] # <<>>

\* The source differs from the target the job resolves for it.
Differs(f, target) ==
    IF target \in {"auto", "auto-existing"} THEN f \notin inplace
    ELSE target # f.name

\* C12 as stated: a copy is made only for the target "auto" with a source
\* that differs from the target; with "auto-existing" or an explicit target
\* no copy is made.
C12_CopyOnlyForAuto ==
    [][\A f \in Tree :
         (Resolved(f) /\ copies'[f] > copies[f])
            => lst[jobIdx].target = "auto" /\ f \notin inplace]_vars

\* C12: get_target copies the source exactly when the source differs from
\* the target and the target is not "auto-existing": for "auto" and for an
\* explicit path other than the source one copy is made, for
\* "auto-existing" and for a target equal to the source none.
C12_CopyUnlessExistingOrSame ==
    [][\A f \in Tree :
         Resolved(f) =>
            copies'[f] = copies[f] +
                (IF Differs(f, lst[jobIdx].target)
                    /\ lst[jobIdx].target # "auto-existing"
                 THEN 1 ELSE 0)]_vars

\* library.db was copied to an explicit target outside the tree and other.db
\* was resolved with "auto-existing" without a copy.
C12_Witness ==
    /\ lst = todo_list_explicit
    /\ copies[LibraryDb] = 1
    /\ handled[OtherDb] # <<>> /\ copies[OtherDb] = 0

\* The operator has answered "always" to a prompt of the run.
AnsweredAlways == \E i \in 1..Len(prompts) : prompts[i].answer = "a"

\* The step prompts for file f.
Prompted(f) ==
    /\ Len(prompts') = Len(prompts) + 1
    /\ prompts'[Len(prompts')].file = f
    /\ prompts'[Len(prompts')].pass = passNo

\* C13: for a source equal to its target no copy is made and the operator
\* is prompted, unless "always" was answered before in the run, in this pass
\* or an earlier one; after "yes" or "no" the next such file prompts again.
\* A source that differs from its target never prompts.  A file answered
\* "no" is not processed, a file answered "yes" or "always" is.
C13_PromptUntilAlways ==
    /\ [][\A f \in Tree :
            Resolved(f) =>
                IF Differs(f, lst[jobIdx].target)
                THEN prompts' = prompts
                ELSE /\ copies'[f] = copies[f]
                     /\ IF AnsweredAlways
                        THEN prompts' = prompts
                        ELSE /\ Prompted(f)
                             /\ SubSeq(prompts', 1, Len(prompts)) = prompts
                             /\ (prompts'[Len(prompts')].answer = "n")
                                    <=> (<<passNo, f>> \notin processed')
       ]_vars
    /\ [](\A i \in 1..Len(prompts) :
            prompts[i].answer = "n"
                => <<prompts[i].pass, prompts[i].file>> \notin processed)
    /\ [](AnsweredAlways <=> ~user_wants_inplace_warning)

\* The operator answered "no" and then "always" in the first pass, and a
\* later pass has resolved an in-place file without a prompt.
C13_Witness ==
    /\ passNo = 2
    /\ Len(prompts) = 2
    /\ prompts[1].answer = "n" /\ prompts[1].pass = 1
    /\ prompts[2].answer = "a" /\ prompts[2].pass = 1
    /\ \E f \in inplace : handled[f] # <<>> /\ <<2, f>> \in processed

\* get_ids has built the id table and the pass has not touched the catalog.
AfterGetIds == ipc \in {"prompt", "snapshot"} /\ colIdx = 1

\* A catalog row whose path is neither empty nor begins with "%", and the
\* identifier derived from that path.
HasMediaPath(r) == Len(r.Path) = 2 /\ r.Path[1] = "path"
Derived(r) == r.Path[2]

\* C14: the id table holds old guid -> new guid exactly for the catalog rows
\* whose path is not empty, does not begin with "%", and whose derived
\* identifier differs from the stored guid; no key is mapped to itself.
C14_TableIsTheChangedRows ==
    AfterGetIds =>
        LET changed == {r \in db["TypedBaseItems"] :
                           HasMediaPath(r) /\ Derived(r) # r.guid}
        IN  /\ DOMAIN ids["bin"] = {r.guid : r \in changed}
            /\ \A r \in changed : ids["bin"][r.guid] = Derived(r)
            /\ \A k \in DOMAIN ids["bin"] : ids["bin"][k] # k

\* The table has an entry, and the catalog has a row with a "%" path and a
\* row whose derived identifier is its guid.
C14_Witness ==
    /\ AfterGetIds
    /\ DOMAIN ids["bin"] # {}
    /\ \E r \in db["TypedBaseItems"] : r.Path = PercentPath
    /\ \E r \in db["TypedBaseItems"] : HasMediaPath(r) /\ Derived(r) = r.guid

\* The ancestor form of 16 bytes: the first eight regrouped.
AncestorBytes(b) ==
    [i \in 1..Len(b) |-> IF i <= 8 THEN b[byte_order[i] + 1] ELSE b[i]]

VariantNames ==
    {"bin", "str", "str_dash", "ancestor_bin", "ancestor_str",
     "ancestor_str_dash"}

\* The form of the binary identifier b in variant v.
Variant(v, b) ==
    CASE v = "bin" -> b
      [] v = "str" -> bid2sid(b)
      [] v = "str_dash" -> sid2did(bid2sid(b))
      [] v = "ancestor_bin" -> AncestorBytes(b)
      [] v = "ancestor_str" -> bid2sid(AncestorBytes(b))
      [] v = "ancestor_str_dash" -> sid2did(bid2sid(AncestorBytes(b)))

\* C15: after get_ids the id table holds one mapping in six forms: for every
\* entry o -> n of the "bin" map and every variant v, the map of v sends the
\* v form of o to the v form of n, and the map of v has as many entries as
\* the "bin" map.
C15_SixVariantsAgree ==
    AfterGetIds =>
        /\ DOMAIN ids = VariantNames
        /\ \A v \in VariantNames :
            /\ \A o \in DOMAIN ids["bin"] :
                /\ Variant(v, o) \in DOMAIN ids[v]
                /\ ids[v][Variant(v, o)] = Variant(v, ids["bin"][o])
            /\ Cardinality(DOMAIN ids[v]) = Cardinality(DOMAIN ids["bin"])

\* The table has two entries or more.
C15_Witness ==
    /\ AfterGetIds
    /\ Cardinality(DOMAIN ids["bin"]) >= 2
    /\ Cardinality(DOMAIN ids["ancestor_str_dash"]) >= 2

\* The new identifiers that two or more old identifiers map to.
CollidingValues ==
    {n \in Range(ids["bin"]) :
        Cardinality({o \in DOMAIN ids["bin"] : ids["bin"][o] = n}) >= 2}

\* The old identifiers that map to such a value.
CollidingOldIds == {o \in DOMAIN ids["bin"] : ids["bin"][o] \in CollidingValues}

\* C16 as stated: the number of duplicates reported is the number of new
\* identifier values with two or more old identifiers, and each of those old
\* identifiers is listed.
C16_OnePerValue ==
    AfterGetIds =>
        /\ Len(duplicates) = Cardinality(CollidingValues)
        /\ reported = CollidingOldIds

\* C16: the list of duplicates holds each new identifier value that k >= 2
\* old identifiers map to k - 1 times, so the number reported is the number
\* of old identifiers less the number of distinct new ones (one for two
\* colliding rows, two for three); each old identifier mapping to such a
\* value is listed.
C16_OnePerExtraRow ==
    AfterGetIds =>
        /\ Len(duplicates) =
              Cardinality(DOMAIN ids["bin"]) - Cardinality(Range(ids["bin"]))
        /\ \A n \in Range(ids["bin"]) :
              Cardinality({i \in 1..Len(duplicates) : duplicates[i] = bid2sid(n)})
                = Cardinality({o \in DOMAIN ids["bin"] : ids["bin"][o] = n}) - 1
        /\ reported = CollidingOldIds

\* Three rows collapse onto one new identifier: two duplicates are reported
\* and the three old identifiers are listed.
C16_Witness ==
    /\ ipc = "prompt"
    /\ Len(duplicates) = 2
    /\ Cardinality(CollidingValues) = 1
    /\ Cardinality(reported) = 3

(***************************************************************************)
(* PART 6: the id scanner (jellyfin_id_scanner.py): load_ids,              *)
(* get_id_candidates, check_embedded_id_types and the text column scan of  *)
(* main.  Strings are sequences of one-character strings.                  *)
(***************************************************************************)

MaxValues == 2

\* The characters get_id_candidates keeps.
IdClass == Range(HexDigits) \cup {"-"}

\* The shortest piece get_id_candidates keeps.
MinCandidateLen == 32

\* get_id_candidates(s) for a str s: every other character becomes a blank,
\* the value is "pure" if that changed nothing, and the pieces between
\* blanks that are long enough are the candidates.
get_id_candidates(s) ==
    LET result == [i \in 1..Len(s) |-> IF s[i] \in IdClass THEN s[i] ELSE " "]
        pieces == Split(result, " ")
    IN  [column_type |-> IF result = s THEN "pure" ELSE "embedded",
         result |-> {p \in Range(pieces) : Len(p) >= MinCandidateLen}]

\* The keys of the dict `ids` that load_ids returns, in insertion order.
id_types_order == <<"str", "str-dash", "ancestor-str", "ancestor-str-dash">>

\* The string form of the binary identifier b that load_ids lists under t.
ScanForm(t, b) ==
    CASE t = "str" -> bid2sid(b)
      [] t = "str-dash" -> sid2did(bid2sid(b))
      [] t = "ancestor-str" -> convert_ancestor_id(bid2sid(b))
      [] t = "ancestor-str-dash" ->
            sid2did(convert_ancestor_id(bid2sid(b)))

\* load_ids: for every string variant the forms of the guids of the catalog,
\* in the order of the SELECT.
load_ids(guids) ==
    [t \in Range(id_types_order) |->
        [i \in 1..Len(guids) |-> ScanForm(t, guids[i])]]

\* The least pair of a set of pairs in the order of two nested loops.
FirstPair(S) ==
    CHOOSE p \in S :
        \A q \in S : p[1] < q[1] \/ (p[1] = q[1] /\ p[2] <= q[2])

\* check_embedded_id_types: the set id_types as (id_type, column_type)
\* pairs; the empty set stands for the result None.  column_values is the
\* list of (column_type, candidates) of the job.  check_for_next_type is set
\* at the first hit and is not cleared: the loops of every later id_type
\* are left after the first value has been compared with the first column
\* value.
check_embedded_id_types(column_values, scan_ids) ==
    LET hits(t, pairs) ==
            {p \in pairs : scan_ids[t][p[1]] \in column_values[p[2]].result}
        all(t) == (DOMAIN scan_ids[t]) \X (DOMAIN column_values)
        first(t) == ((DOMAIN scan_ids[t]) \cap {1}) \X
                        ((DOMAIN column_values) \cap {1})
        found(t, flag) ==
            LET h == hits(t, IF flag THEN first(t) ELSE all(t))
            IN  IF h = {} THEN {}
                ELSE {<<t, column_values[FirstPair(h)[2]].column_type>>}
        F[k \in 0..Len(id_types_order)] ==
            IF k = 0 THEN [id_types |-> {}, check_for_next_type |-> FALSE]
            ELSE LET before == F[k - 1]
                     new == found(id_types_order[k],
                                  before.check_for_next_type)
                 IN  [id_types |-> before.id_types \cup new,
                      check_for_next_type |->
                          before.check_for_next_type \/ new # {}]
    IN  F[Len(id_types_order)].id_types

\* ---- the catalogs and columns of the model

ScanGuids == {GuidBytes(1), GuidBytes(2)}

\* The SELECT of load_ids: the guids of the catalog, each once, in any order.
Catalogs ==
    {<<g>> : g \in ScanGuids}
    \cup {<<gh[1], gh[2]>> :
            gh \in {x \in ScanGuids \X ScanGuids : x[1] # x[2]}}

Quoted(s) == <<"\"">> \o s \o <<"\"">>

\* The values a text column of the scanned database may hold: identifiers
\* in a string form, alone or inside other text, a run of identifier
\* characters one longer than an identifier, and a short word.
ColumnValuePool ==
    {ScanForm("str", GuidBytes(1)),
     Quoted(ScanForm("str", GuidBytes(1))),
     ScanForm("str-dash", GuidBytes(1)),
     ScanForm("str-dash", GuidBytes(2)),
     Quoted(ScanForm("ancestor-str", GuidBytes(2))),
     <<"a">> \o ScanForm("str", GuidBytes(1)),
     <<"n", "o", "n", "e">>}

\* load_all_rows keeps a column only if it has a value.
Columns ==
    {c \in SUBSET ColumnValuePool : c # {} /\ Cardinality(c) <= MaxValues}

ColumnNames == <<"a", "b">>

\* The jobs of main: one column of table "t", or two columns of one value
\* each, in the order of load_all_rows.
ScanJob(n, c) == [table |-> "t", column |-> n, values |-> c]
ScanJobs ==
    {<<ScanJob(n, c)>> : n \in Range(ColumnNames), c \in Columns}
    \cup {<<ScanJob(nn[1], c), ScanJob(nn[2], d)>> :
            nn \in {<<"a", "b">>, <<"b", "a">>},
            c \in {{v} : v \in ColumnValuePool},
            d \in {{v} : v \in ColumnValuePool}}

\* ---- main, from the loop of imap_unordered to the sorted report

ScanInit ==
    /\ fpc = "candidates"
    /\ \E guids \in Catalogs, jobs \in ScanJobs :
        fIn = [guids |-> guids, jobs |-> jobs]
    /\ fOut = [i |-> 1, left |-> fIn.jobs[1].values,
               col_values |-> [j \in DOMAIN fIn.jobs |-> <<>>],
               report |-> <<>>]

\* imap_unordered hands over the candidates of one more value of the
\* current column, whichever the pool finished first; the list
\* comprehension keeps it if it has a candidate.  After the last value of a
\* column the loop goes to the next job, after the last job to the checks.
Deliver ==
    /\ fpc = "candidates"
    /\ \E v \in fOut.left :
        LET x == get_id_candidates(v)
            i == fOut.i
            col_values ==
                IF x.result # {}
                THEN [fOut.col_values EXCEPT ![i] = Append(@, x)]
                ELSE fOut.col_values
            left == fOut.left \ {v}
        IN  /\ fOut' =
                IF left # {}
                THEN [fOut EXCEPT !.left = left, !.col_values = col_values]
                ELSE IF i < Len(fIn.jobs)
                THEN [fOut EXCEPT !.i = i + 1,
                                  !.left = fIn.jobs[i + 1].values,
                                  !.col_values = col_values]
                ELSE [fOut EXCEPT !.left = {}, !.col_values = col_values]
            /\ fpc' = IF left = {} /\ i = Len(fIn.jobs)
                      THEN "check" ELSE "candidates"
    /\ fIn' = fIn
    /\ UNCHANGED <<jobVars, idVars>>

\* The lines of the report for the given candidate lists: the results of
\* check_embedded_id_types in job order, without the empty ones, sorted by
\* the concatenation of table, column and types.  All lines are of table
\* "t" and the column names are single letters, so the sort puts the lines
\* in the order of ColumnNames.
ReportLines(jobs, col_values, scan_ids) ==
    LET result(j) == check_embedded_id_types(col_values[j], scan_ids)
        line(n) ==
            LET j == CHOOSE j \in DOMAIN jobs : jobs[j].column = n
            IN  [table |-> jobs[j].table, column |-> n,
                 id_types |-> result(j)]
        kept(n) == /\ \E j \in DOMAIN jobs : jobs[j].column = n
                   /\ line(n).id_types # {}
        F[k \in 0..Len(ColumnNames)] ==
            IF k = 0 THEN <<>>
            ELSE IF kept(ColumnNames[k])
                 THEN Append(F[k - 1], line(ColumnNames[k]))
                 ELSE F[k - 1]
    IN  F[Len(ColumnNames)]

\* p.map(check_embedded_id_types, jobs), the removal of the empty results
\* and the sort.
MapChecks ==
    /\ fpc = "check"
    /\ fOut' = [fOut EXCEPT !.report =
                    ReportLines(fIn.jobs, fOut.col_values,
                                load_ids(fIn.guids))]
    /\ fpc' = "reported"
    /\ fIn' = fIn
    /\ UNCHANGED <<jobVars, idVars>>

ScanNext ==
    \/ Deliver
    \/ MapChecks

InitScan == JobsIdle /\ IdsIdle /\ ScanInit
SpecScan == InitScan /\ [][ScanNext]_vars

\* The string variants whose form of some catalog identifier is an id
\* candidate of some value of the column.
PresentTypes(values, guids) ==
    {t \in Range(id_types_order) :
        \E i \in DOMAIN guids, v \in values :
            ScanForm(t, guids[i]) \in get_id_candidates(v).result}

\* The variants the report names for job j.
ReportedTypes(j) ==
    {p[1] : p \in UNION {l.id_types : l \in
                {x \in Range(fOut.report) :
                    x.column = fIn.jobs[j].column}}}

\* C17: for every text column the variants the scanner reports are the
\* string variants of which the form of some catalog identifier equals an
\* id candidate of some value of the column; a variant found does not keep
\* the other variants from being searched over all identifiers and values.
C17_ReportsThePresentVariants ==
    fpc = "reported" =>
        \A j \in DOMAIN fIn.jobs :
            ReportedTypes(j) = PresentTypes(fIn.jobs[j].values, fIn.guids)

\* The lists imap_unordered can produce for a column.
Deliveries(values) ==
    LET n == Cardinality(values)
        orders == {o \in [1..n -> values] :
                      \A a, b \in 1..n : a # b => o[a] # o[b]}
        Keep(s) ==
            LET F[k \in 0..Len(s)] ==
                    IF k = 0 THEN <<>>
                    ELSE IF s[k].result # {} THEN Append(F[k - 1], s[k])
                         ELSE F[k - 1]
            IN  F[Len(s)]
    IN  {Keep([k \in 1..n |-> get_id_candidates(o[k])]) : o \in orders}

\* C18: the report is the same for every order in which the pool workers
\* complete: the lines reported are those of any other order in which
\* imap_unordered could have delivered the candidates of the columns.
C18_SameReportForEveryOrder ==
    fpc = "reported" =>
        \A cv \in [DOMAIN fIn.jobs ->
                      UNION {Deliveries(fIn.jobs[j].values) :
                                j \in DOMAIN fIn.jobs}] :
            (\A j \in DOMAIN fIn.jobs :
                cv[j] \in Deliveries(fIn.jobs[j].values))
            => ReportLines(fIn.jobs, cv, load_ids(fIn.guids)) = fOut.report

(***************************************************************************)
(* PART 7: convert_ancestor_id on one identifier, applied twice.           *)
(***************************************************************************)

\* The values the first eight bytes of the identifiers of the model take.
ByteChoices == {26, 243}

\* Bytes 8 to 15 of the identifiers of the model.
TailBytes == <<128, 9, 170, 27, 188, 45, 206, 63>>

\* The identifiers: 32 hexadecimal digits.
AncestorInputs ==
    {bid2sid(head \o TailBytes) : head \in [1..8 -> ByteChoices]}

AncestorInit ==
    /\ fpc = "id"
    /\ fIn \in AncestorInputs
    /\ fOut = <<>>

\* id_ancestor_str = convert_ancestor_id(id_str)
ConvertOnce ==
    /\ fpc = "id"
    /\ fOut' = <<convert_ancestor_id(fIn)>>
    /\ fpc' = "once"
    /\ fIn' = fIn
    /\ UNCHANGED <<jobVars, idVars>>

\* The conversion of the ancestor form.
ConvertTwice ==
    /\ fpc = "once"
    /\ fOut' = Append(fOut, convert_ancestor_id(fOut[1]))
    /\ fpc' = "twice"
    /\ fIn' = fIn
    /\ UNCHANGED <<jobVars, idVars>>

AncestorNext ==
    \/ ConvertOnce
    \/ ConvertTwice

InitAncestor == JobsIdle /\ IdsIdle /\ AncestorInit
SpecAncestor == InitAncestor /\ [][AncestorNext]_vars

\* C19: convert_ancestor_id puts the first eight bytes of a 32 digit
\* identifier in the order (3,2,1,0,5,4,7,6), leaves bytes 8 to 15 as they
\* are, and applied twice gives the identifier back.
C19_PermutationAndInvolution ==
    /\ fpc \in {"once", "twice"} =>
        LET b == sid2bid(fIn)
            c == sid2bid(fOut[1])
            order == <<3, 2, 1, 0, 5, 4, 7, 6>>
        IN  /\ Len(fOut[1]) = 32
            /\ \A i \in 0..7 : c[i + 1] = b[order[i + 1] + 1]
            /\ \A i \in 8..15 : c[i + 1] = b[i + 1]
    /\ fpc = "twice" => fOut[2] = fIn

\* An identifier whose ancestor form differs from it has been converted
\* twice.
C19_Witness ==
    /\ fpc = "twice"
    /\ fOut[1] # fIn
    /\ fOut[2] = fIn
    /\ sid2bid(fIn)[1] # sid2bid(fIn)[4]

(***************************************************************************)
(* PART 8: get_dotnet_MD5 on item_type + path, with the encoding and the   *)
(* digest computed byte by byte.  A 32 bit word is a pair <<high, low>> of *)
(* 16 bit halves.  In PART 2 a path value of the model names its digest;   *)
(* here the digest is that of hashlib.md5.                                 *)
(***************************************************************************)

\* The printable ASCII characters from "!" (33) to "_" (95) and from "a"
\* (97) to "~" (126), in order.
PrintableTo95 ==
    <<
      "!", "\"", "#", "$", "%", "&", "'", "(", ")", "*", "+", ",",
      "-", ".", "/", "0", "1", "2", "3", "4", "5", "6", "7", "8",
      "9", ":", ";", "<", "=", ">", "?", "@", "A", "B", "C", "D",
      "E", "F", "G", "H", "I", "J", "K", "L", "M", "N", "O", "P",
      "Q", "R", "S", "T", "U", "V", "W", "X", "Y", "Z", "[", "\\",
      "]", "^", "_"
    >>
PrintableFrom97 ==
    <<
      "a", "b", "c", "d", "e", "f", "g", "h", "i", "j", "k", "l",
      "m", "n", "o", "p", "q", "r", "s", "t", "u", "v", "w", "x",
      "y", "z", "{", "|", "}", "~"
    >>

\* ord(c) of a character of the model.
Ord(c) ==
    IF c = " " THEN 32
    ELSE IF \E k \in DOMAIN PrintableTo95 : PrintableTo95[k] = c
    THEN 32 + (CHOOSE k \in DOMAIN PrintableTo95 : PrintableTo95[k] = c)
    ELSE 96 + (CHOOSE k \in DOMAIN PrintableFrom97 : PrintableFrom97[k] = c)

\* An encoding of one byte per character.
one_byte_per_char(s) == [i \in 1..Len(s) |-> Ord(s[i])]

\* s.encode("utf-16-le") for characters of the basic plane: two bytes per
\* character, the low byte first.
utf_16_le(s) ==
    [i \in 1..(2 * Len(s)) |->
        IF i % 2 = 1 THEN Ord(s[(i + 1) \div 2]) % 256
        ELSE Ord(s[i \div 2]) \div 256]

\* The bitwise and of two numbers of n bits, n a power of two: by halves.
RECURSIVE AndBits(_, _, _)
AndBits(a, b, n) ==
    IF n = 1 THEN a * b
    ELSE LET h == 2 ^ (n \div 2)
         IN  h * AndBits(a \div h, b \div h, n \div 2)
             + AndBits(a % h, b % h, n \div 2)

And16(a, b) == AndBits(a, b, 16)

WAnd(x, y) == <<And16(x[1], y[1]), And16(x[2], y[2])>>
WOr(x, y) ==
    <<x[1] + y[1] - And16(x[1], y[1]), x[2] + y[2] - And16(x[2], y[2])>>
WXor(x, y) ==
    <<x[1] + y[1] - 2 * And16(x[1], y[1]),
      x[2] + y[2] - 2 * And16(x[2], y[2])>>
WNot(x) == <<65535 - x[1], 65535 - x[2]>>

\* Addition modulo 2^32.
WAdd(x, y) ==
    LET low == x[2] + y[2]
    IN  <<(x[1] + y[1] + (low \div 65536)) % 65536, low % 65536>>

\* Rotation to the left by s bits, 0 < s < 32.
RotL(x, s) ==
    LET y == IF s >= 16 THEN <<x[2], x[1]>> ELSE x
        r == s % 16
    IN  <<((y[1] * (2 ^ r)) % 65536) + (y[2] \div (2 ^ (16 - r))),
          ((y[2] * (2 ^ r)) % 65536) + (y[1] \div (2 ^ (16 - r)))>>

\* The shift of each of the 64 steps of MD5.
md5_shift ==
    <<
      7, 12, 17, 22, 7, 12, 17, 22, 7, 12, 17, 22, 7, 12, 17, 22,
      5, 9, 14, 20, 5, 9, 14, 20, 5, 9, 14, 20, 5, 9, 14, 20,
      4, 11, 16, 23, 4, 11, 16, 23, 4, 11, 16, 23, 4, 11, 16, 23,
      6, 10, 15, 21, 6, 10, 15, 21, 6, 10, 15, 21, 6, 10, 15, 21
    >>

\* The constants of the 64 steps: floor(2^32 * abs(sin(i))).
md5_K ==
    <<
      <<55146, 42104>>, <<59591, 46934>>, <<9248, 28891>>, <<49597, 52974>>,
      <<62844, 4015>>, <<18311, 50730>>, <<43056, 17939>>, <<64838, 38145>>,
      <<27008, 39128>>, <<35652, 63407>>, <<65535, 23473>>, <<35164, 55230>>,
      <<27536, 4386>>, <<64920, 29075>>, <<42617, 17294>>, <<18868, 2081>>,
      <<63006, 9570>>, <<49216, 45888>>, <<9822, 23121>>, <<59830, 51114>>,
      <<54831, 4189>>, <<580, 5203>>, <<55457, 59009>>, <<59347, 64456>>,
      <<8673, 52710>>, <<49975, 2006>>, <<62677, 3463>>, <<17754, 5357>>,
      <<43491, 59653>>, <<64751, 41976>>, <<26479, 729>>, <<36138, 19594>>,
      <<65530, 14658>>, <<34673, 63105>>, <<28061, 24866>>, <<64997, 14348>>,
      <<42174, 59972>>, <<19422, 53161>>, <<63163, 19296>>, <<48831, 48240>>,
      <<10395, 32454>>, <<60065, 10234>>, <<54511, 12421>>, <<1160, 7429>>,
      <<55764, 53305>>, <<59099, 39397>>, <<8098, 31992>>, <<50348, 22117>>,
      <<62505, 8772>>, <<17194, 65431>>, <<43924, 9127>>, <<64659, 41017>>,
      <<25947, 22979>>, <<36620, 52370>>, <<65519, 62589>>, <<34180, 24017>>,
      <<28584, 32335>>, <<65068, 59104>>, <<41729, 17172>>, <<19976, 4513>>,
      <<63315, 32386>>, <<48442, 62005>>, <<10967, 53947>>, <<60294, 54161>>
    >>

md5_init == <<<<26437, 8961>>, <<61389, 43913>>, <<39098, 56574>>,
              <<4146, 21622>>>>

\* The message followed by the byte 128, zero bytes up to 56 modulo 64 and
\* the length in bits as 8 bytes, low byte first.
md5_pad(msg) ==
    LET n == Len(msg)
        zeros == (119 - (n % 64)) % 64
    IN  msg \o <<128>> \o [i \in 1..zeros |-> 0]
        \o [k \in 1..8 |->
                IF k <= 4 THEN ((8 * n) \div (2 ^ (8 * (k - 1)))) % 256
                ELSE 0]

\* The 16 words of block b (from 0) of the padded message.
md5_words(padded, b) ==
    [j \in 1..16 |->
        LET o == 64 * b + 4 * (j - 1)
        IN  <<padded[o + 3] + 256 * padded[o + 4],
              padded[o + 1] + 256 * padded[o + 2]>>]

\* Step i (from 1) of the 64 steps of a block on the state p.
md5_step(p, M, i) ==
    LET A == p[1]
        B == p[2]
        C == p[3]
        D == p[4]
        f == IF i <= 16 THEN WOr(WAnd(B, C), WAnd(WNot(B), D))
             ELSE IF i <= 32 THEN WOr(WAnd(B, D), WAnd(C, WNot(D)))
             ELSE IF i <= 48 THEN WXor(WXor(B, C), D)
             ELSE WXor(C, WOr(B, WNot(D)))
        g == IF i <= 16 THEN i - 1
             ELSE IF i <= 32 THEN (5 * (i - 1) + 1) % 16
             ELSE IF i <= 48 THEN (3 * (i - 1) + 5) % 16
             ELSE (7 * (i - 1)) % 16
        sum == WAdd(WAdd(WAdd(f, A), md5_K[i]), M[g + 1])
    IN  <<D, WAdd(B, RotL(sum, md5_shift[i])), B, C>>

\* The steps from to to of a block, in order; the state after the first
\* half of them is computed before the second half begins.
RECURSIVE md5_steps(_, _, _, _)
md5_steps(p, M, from, to) ==
    IF from = to THEN md5_step(p, M, from)
    ELSE LET mid == (from + to) \div 2
             half == md5_steps(p, M, from, mid)
         IN  IF Len(half) = 4 THEN md5_steps(half, M, mid + 1, to)
             ELSE half

\* The 64 steps of one block, added to the state.
md5_block(state, M) ==
    LET last == md5_steps(state, M, 1, 64)
    IN  [w \in 1..4 |-> WAdd(state[w], last[w])]

\* hashlib.md5(data).digest(): 16 bytes.
md5_digest(data) ==
    LET padded == md5_pad(data)
        S[b \in 0..(Len(padded) \div 64)] ==
            IF b = 0 THEN md5_init
            ELSE md5_block(S[b - 1], md5_words(padded, b - 1))
        final == S[Len(padded) \div 64]
    IN  [i \in 1..16 |->
            LET w == final[((i - 1) \div 4) + 1]
                k == (i - 1) % 4
            IN  IF k = 0 THEN w[2] % 256
                ELSE IF k = 1 THEN w[2] \div 256
                ELSE IF k = 2 THEN w[1] % 256
                ELSE w[1] \div 256]

\* get_dotnet_MD5(s): the input of the hash and its digest.
hash_input(s) == utf_16_le(s)
dotnet_MD5(s) == md5_digest(hash_input(s))

\* ---- the item types and paths of the model

T_Movie == <<"M", "o", "v", "i", "e">>
P_x_mkv ==
    <<"/", "d", "a", "t", "a", "/", "m", "o", "v", "i", "e", "s", "/", "x",
      ".", "m", "k", "v">>

ItemTypes ==
    {T_Movie,
     <<"S", "e", "r", "i", "e", "s">>,
     <<"F", "o", "l", "d", "e", "r">>,
     <<"A", "u", "d", "i", "o">>,
     <<"M", "u", "s", "i", "c", "A", "l", "b", "u", "m">>}

PathRoots ==
    {<<"/", "d", "a", "t", "a">>,
     <<"C", ":", "\\", "m", "e", "d", "i", "a">>,
     <<"/", "m", "n", "t", "/", "n", "a", "s", " ", "1">>}
PathFolders ==
    {<<>>,
     <<"/", "m", "o", "v", "i", "e", "s">>,
     <<"/", "t", "v", "/", "S", "h", "o", "w", " ", "(", "2", "0", "2",
       "0", ")">>}
PathLeaves ==
    {<<>>,
     <<"/", "x", ".", "m", "k", "v">>,
     <<"/", "a", "~", "b", ".", "m", "p", "3">>,
     <<"/", "S", "0", "1", "E", "0", "2", " ", "-", " ", "P", "i", "l",
       "o", "t", ".", "m", "k", "v">>}

\* The paths get_ids hashes: not empty and not starting with "%".
HashedPaths ==
    {r \o f \o l : r \in PathRoots, f \in PathFolders, l \in PathLeaves}

HashInit ==
    /\ fpc = "row"
    /\ \E item_type \in ItemTypes, path \in HashedPaths :
        fIn = [item_type |-> item_type, path |-> path]
    /\ fOut = <<>>

\* new_guid = get_dotnet_MD5(item_type + path)
HashRow ==
    /\ fpc = "row"
    /\ LET s == fIn.item_type \o fIn.path
       IN  fOut' = [input |-> hash_input(s), new_guid |-> dotnet_MD5(s)]
    /\ fpc' = "hashed"
    /\ fIn' = fIn
    /\ UNCHANGED <<jobVars, idVars>>

HashNext ==
    \/ HashRow

InitHash == JobsIdle /\ IdsIdle /\ HashInit
SpecHash == InitHash /\ [][HashNext]_vars

IsMovieExample == fIn.item_type = T_Movie /\ fIn.path = P_x_mkv

\* The text "Movie/data/movies/x.mkv" in UTF-16LE: the code of each
\* character followed by a zero byte.
MovieExampleBytes ==
    <<77, 0, 111, 0, 118, 0, 105, 0, 101, 0, 47, 0, 100, 0, 97, 0, 116, 0,
      97, 0, 47, 0, 109, 0, 111, 0, 118, 0, 105, 0, 101, 0, 115, 0, 47, 0,
      120, 0, 46, 0, 109, 0, 107, 0, 118, 0>>

\* C20 as stated: for type "Movie" and path "/data/movies/x.mkv" the input
\* of the hash is the UTF-16LE encoding of "Movie/data/movies/x.mkv", it is
\* 34 bytes long, and the digest is 16 bytes.
C20_InputIs34Bytes ==
    (fpc = "hashed" /\ IsMovieExample) =>
        /\ fOut.input = MovieExampleBytes
        /\ Len(fOut.input) = 34
        /\ Len(fOut.new_guid) = 16

\* C20, amended: the input of the hash is the UTF-16LE encoding of type
\* followed by path, two bytes for each character; for type "Movie" and
\* path "/data/movies/x.mkv" these are the 46 bytes of
\* "Movie/data/movies/x.mkv"; the digest is 16 bytes.
C20_InputIs46Bytes ==
    fpc = "hashed" =>
        /\ Len(fOut.input) = 2 * (Len(fIn.item_type) + Len(fIn.path))
        /\ \A i \in 1..(Len(fIn.item_type) + Len(fIn.path)) :
            /\ fOut.input[2 * i - 1] = Ord((fIn.item_type \o fIn.path)[i])
            /\ fOut.input[2 * i] = 0
        /\ Len(fOut.new_guid) = 16
        /\ \A i \in 1..16 : fOut.new_guid[i] \in 0..255
        /\ IsMovieExample =>
            /\ fOut.input = MovieExampleBytes
            /\ Len(fOut.input) = 46

\* The example has been hashed; its digest is the one hashlib gives.
C20_Witness ==
    /\ fpc = "hashed"
    /\ IsMovieExample
    /\ Len(fOut.input) = 46
    /\ bid2sid(fOut.new_guid) =
        <<"0", "3", "4", "6", "3", "e", "7", "5", "b", "3", "1", "2", "9",
          "5", "3", "2", "d", "f", "0", "e", "3", "c", "a", "1", "2", "6",
          "b", "3", "d", "b", "9", "4">>

(***************************************************************************)
(* Chains in the id table (SpecIds)                                        *)
(***************************************************************************)

\* The guid a catalog row had when the pass began.
OriginalGuid(r) == GuidBytes(r.rowid)

\* The new identifiers are pairwise different and none of them is the
\* identifier of a catalog row that keeps its identifier: the rewritten
\* catalog has no two rows with one guid.
NoCollision ==
    /\ duplicates = <<>>
    /\ \A o \in DOMAIN ids["bin"] :
        \A n \in 1..NRows :
            GuidBytes(n) \notin DOMAIN ids["bin"] => ids["bin"][o] # GuidBytes(n)

\* C29: after the id pass every surviving row whose original value o was a
\* key of the id table holds ids[o], no value is rewritten twice also when
\* the new identifier of one entry is the old identifier of another, and no
\* row is deleted when the new identifiers do not collide.
C29_RewrittenOnceAndKept ==
    ipc = "done" =>
        /\ \A r \in db["TypedBaseItems"] :
            OriginalGuid(r) \in DOMAIN ids["bin"]
            => r.guid = ids["bin"][OriginalGuid(r)]
        /\ preview =>
            \A r \in db["mediastreams"] :
                LET o == (CHOOSE x \in dbFile["mediastreams"] :
                            x.rowid = r.rowid).ItemId
                IN  o \in DOMAIN ids["bin"] => r.ItemId = ids["bin"][o]
        /\ NoCollision =>
            {r.rowid : r \in db["TypedBaseItems"]} = 1..NRows


(***************************************************************************)
(* PART 9.  process_file on a database: update_db_table, table by table    *)
(*                                                                         *)
(* fIn holds the tables of the job, the replacement dict and the preview   *)
(* flag; fOut holds the file, the view of the open connection, the         *)
(* worklist, the statements executed and the exit status of the process   *)
(* once it has ended.  replace_func is                                     *)
(* recursive_root_path_replacer.  Another process may delete a row as      *)
(* long as the connection holds no write lock, and the UPDATE may fail in  *)
(* the driver.                                                             *)
(***************************************************************************)

NTableRows == 2

\* A column without a value (None).
Null == <<"None">>

\* A test that lets the empty string through.
NotNone(v) == v # Null

\* `if data`, `if not imgs`: None and the empty string are false.
Truthy(v) == v # Null /\ v # <<>>

\* replace_func on a column value: a value that is no string is returned
\* unmodified and not counted.
replace_func(d, replace_dict) ==
    IF d = Null THEN [d |-> d, modified |-> 0, ignored |-> 0]
    ELSE recursive_root_path_replacer(d, replace_dict)

Quote == "\""
Backslash == "\\"

\* json.loads succeeds: over the characters of the model the only JSON
\* documents are the string literals without escapes.
IsJson(s) ==
    /\ Len(s) >= 2
    /\ s[1] = Quote
    /\ s[Len(s)] = Quote
    /\ \A i \in 2..(Len(s) - 1) : s[i] \notin {Quote, Backslash}

\* json.loads of such a document.
json_loads(s) == SubSeq(s, 2, Len(s) - 1)

\* json.dumps of a string: quoted, the quote and the backslash escaped.
json_dumps(d) ==
    LET F[i \in 0..Len(d)] ==
            IF i = 0 THEN <<Quote>>
            ELSE LET before == F[i - 1]
                 IN  IF d[i] \in {Quote, Backslash}
                     THEN before \o <<Backslash, d[i]>>
                     ELSE Append(before, d[i])
    IN  Append(F[Len(d)], Quote)

\* The column arguments of a table of the todo list.
Kwargs(json_columns, path_columns, jf_image_columns) ==
    [json_columns |-> json_columns, path_columns |-> path_columns,
     jf_image_columns |-> jf_image_columns]

\* The json columns of a row that are loaded: `if data`.
LoadedJson(row, kwargs) ==
    {c \in Range(kwargs.json_columns) : Truthy(row.cols[c])}

\* json.loads raises for a column of the row.
JsonRaises(row, kwargs) ==
    \E c \in LoadedJson(row, kwargs) : ~IsJson(row.cols[c])

\* The image columns of a row that are rewritten: not `if not imgs`.
LoadedImages(row, kwargs) ==
    {c \in Range(kwargs.jf_image_columns) : Truthy(row.cols[c])}

\* `result` of lines 670 to 716: the new value of every json column that
\* was loaded, of every path column, and of every image column that is not
\* empty.
RowResult(row, kwargs, replace_dict) ==
    LET js == LoadedJson(row, kwargs)
        ps == Range(kwargs.path_columns)
        is == LoadedImages(row, kwargs)
    IN  [c \in js \cup ps \cup is |->
            IF c \in js
            THEN json_dumps(replace_func(json_loads(row.cols[c]),
                                         replace_dict).d)
            ELSE IF c \in ps
                 THEN replace_func(row.cols[c], replace_dict).d
                 ELSE UpdateImages(row.cols[c], replace_dict).imgs]

\* UPDATE table SET keys WHERE rowid = id, on the rows of the table.
SqlUpdateRow(rows, id, result) ==
    {IF r.rowid = id
     THEN [r EXCEPT !.cols = [c \in DOMAIN r.cols |->
                                 IF c \in DOMAIN result THEN result[c]
                                 ELSE r.cols[c]]]
     ELSE r : r \in rows}

\* The row ids of a table in ascending order.
Ascending(S) ==
    LET F[T \in SUBSET S] ==
            IF T = {} THEN <<>>
            ELSE LET lo == CHOOSE x \in T : \A y \in T : x <= y
                 IN  <<lo>> \o F[T \ {lo}]
    IN  F[S]

\* A worklist that is not read to its end: the last row id is missing.
WorklistCutShort(rows) ==
    LET all == Ascending({r.rowid : r \in rows} \ {0})
    IN  SubSeq(all, 1, Len(all) - 1)

\* Line 640: the row ids selected, those that are 0 left out.
Worklist(rows) == Ascending({r.rowid : r \in rows} \ {0})

\* The values of the columns.
J_ab == <<Quote>> \o S_ab \o <<Quote>>
I_ab == S_ab \o <<"*", "1">>
TableDict(slash) == Dict(slash, <<Item(S_a, S_y)>>)

TypedBaseItemsKwargs == Kwargs(<<"data">>, <<"path">>, <<"Images">>)
Chapters2Kwargs == Kwargs(<<>>, <<>>, <<"ImagePath">>)

ItemRow(n, data, path, images) ==
    [rowid |-> n,
     cols |-> [c \in {"data", "path", "Images"} |->
                  IF c = "data" THEN data
                  ELSE IF c = "path" THEN path ELSE images]]
ChapterRow(n, image) ==
    [rowid |-> n, cols |-> [c \in {"ImagePath"} |-> image]]

ItemRowValues == {<<>>, J_ab, S_a} \X {S_ab, S_x} \X {Null, I_ab}
ItemTables ==
    {{ItemRow(n, v[n][1], v[n][2], v[n][3]) : n \in 1..NTableRows} :
        v \in [1..NTableRows -> ItemRowValues]}
ChapterTables ==
    {{ChapterRow(n, image)} : n \in {0, 1}, image \in {Null, <<>>, I_ab}}

TableInit ==
    /\ fpc = "table"
    /\ \E items \in ItemTables, chapters \in ChapterTables,
          slash \in Slashes, p \in BOOLEAN :
        /\ fIn = [tables |-> <<[name |-> "TypedBaseItems",
                                kwargs |-> TypedBaseItemsKwargs],
                               [name |-> "Chapters2",
                                kwargs |-> Chapters2Kwargs]>>,
                  replace_dict |-> TableDict(slash),
                  preview |-> p]
        /\ fOut = [file |-> [t \in {"TypedBaseItems", "Chapters2"} |->
                               IF t = "TypedBaseItems" THEN items
                               ELSE chapters],
                   con |-> {}, open |-> FALSE, locked |-> FALSE,
                   t |-> 1, todo |-> <<>>, i |-> 0, row |-> <<>>,
                   visited |-> <<>>, log |-> <<>>, commits |-> <<>>,
                   status |-> <<>>]

CurrentTable == fIn.tables[fOut.t]

\* Lines 613 to 641: the connection is opened and the row ids are read.
TableOpen ==
    /\ fpc = "table"
    /\ fOut.t <= Len(fIn.tables)
    /\ fOut' = [fOut EXCEPT !.con = fOut.file[CurrentTable.name],
                            !.open = TRUE,
                            !.todo = Worklist(fOut.file[CurrentTable.name]),
                            !.i = 1, !.visited = <<>>]
    /\ fpc' = "row"
    /\ fIn' = fIn
    /\ UNCHANGED <<jobVars, idVars>>

\* A process other than the migrator deletes a row of the table; it can
\* while the connection holds no write lock.
OtherWriterDeletes ==
    /\ fpc \in {"row", "update"}
    /\ ~fOut.locked
    /\ \E r \in fOut.con :
        /\ \E k \in fOut.i..Len(fOut.todo) : fOut.todo[k] = r.rowid
        /\ fOut' = [fOut EXCEPT !.con = fOut.con \ {r},
                                !.file[CurrentTable.name] = @ \ {r}]
    /\ UNCHANGED <<fpc, fIn>>
    /\ UNCHANGED <<jobVars, idVars>>

\* Lines 656 to 729 for the next row id: the row is read and `result` is
\* built; the row is left when it is not there or when `result` is empty.
RowSelect ==
    /\ fpc = "row"
    /\ fOut.i <= Len(fOut.todo)
    /\ LET id == fOut.todo[fOut.i]
           row == {r \in fOut.con : r.rowid = id}
           seen == [fOut EXCEPT !.visited = Append(@, id)]
       IN  IF Cardinality(row) # 1
           THEN /\ fOut' = [seen EXCEPT !.i = @ + 1]
                /\ fpc' = "row"
           ELSE LET r == CHOOSE x \in row : TRUE
                IN  IF JsonRaises(r, CurrentTable.kwargs)
                    THEN \* json.JSONDecodeError is caught nowhere
                         /\ fOut' = [seen EXCEPT !.status = <<1>>]
                         /\ fpc' = "raised"
                    ELSE LET result == RowResult(r, CurrentTable.kwargs,
                                                 fIn.replace_dict)
                         IN  IF DOMAIN result = {}
                             THEN /\ fOut' = [seen EXCEPT !.i = @ + 1]
                                  /\ fpc' = "row"
                             ELSE /\ fOut' = [seen EXCEPT !.row = result]
                                  /\ fpc' = "update"
    /\ fIn' = fIn
    /\ UNCHANGED <<jobVars, idVars>>

\* Lines 736 to 753: the UPDATE is executed; exit() when it changed no row.
RowUpdate ==
    /\ fpc = "update"
    /\ LET id == fOut.todo[fOut.i]
           hit == {r \in fOut.con : r.rowid = id}
           stmt == [op |-> "UPDATE", table |-> CurrentTable.name,
                    rowid |-> id, set |-> fOut.row,
                    old |-> {r.cols : r \in hit}]
           after == [fOut EXCEPT !.log = Append(@, stmt), !.locked = TRUE,
                                 !.row = <<>>]
       IN  IF hit # {}
           THEN /\ fOut' = [after EXCEPT
                               !.con = SqlUpdateRow(@, id, fOut.row),
                               !.i = @ + 1]
                /\ fpc' = "row"
           ELSE \* cur.rowcount < 1: exit() ends the process with status 0
                /\ fOut' = [after EXCEPT !.status = <<0>>]
                /\ fpc' = "exited"
    /\ fIn' = fIn
    /\ UNCHANGED <<jobVars, idVars>>

\* Lines 738 to 745: the driver raises on the UPDATE; exit() ends the
\* process with status 0.
RowUpdateError ==
    /\ fpc = "update"
    /\ fOut' = [fOut EXCEPT !.row = <<>>, !.status = <<0>>]
    /\ fpc' = "exited"
    /\ fIn' = fIn
    /\ UNCHANGED <<jobVars, idVars>>

\* Lines 754 to 762 after the last row id: commit unless preview, close.
TableCommitClose ==
    /\ fpc = "row"
    /\ fOut.i > Len(fOut.todo)
    /\ fOut' = [fOut EXCEPT
                   !.file[CurrentTable.name] =
                       IF fIn.preview THEN @ ELSE fOut.con,
                   !.commits = IF fIn.preview THEN @
                               ELSE Append(@, CurrentTable.name),
                   !.con = {}, !.open = FALSE, !.locked = FALSE,
                   !.todo = <<>>, !.i = 0,
                   !.t = @ + 1]
    /\ fpc' = "table"
    /\ fIn' = fIn
    /\ UNCHANGED <<jobVars, idVars>>

\* process_file returns after the last table.
TablesReturn ==
    /\ fpc = "table"
    /\ fOut.t > Len(fIn.tables)
    /\ fpc' = "returned"
    /\ UNCHANGED <<fIn, fOut>>
    /\ UNCHANGED <<jobVars, idVars>>

TableNext ==
    \/ TableOpen
    \/ OtherWriterDeletes
    \/ RowSelect
    \/ RowUpdate
    \/ RowUpdateError
    \/ TableCommitClose
    \/ TablesReturn

InitTable == JobsIdle /\ IdsIdle /\ TableInit
SpecTable == InitTable /\ [][TableNext]_vars


\* C24: update_db_table issues an UPDATE only for a row in which the value
\* of a targeted column changes: every UPDATE executed sets a column to a
\* value that differs from the one the row held.
C24_NoUpdateWithoutChange ==
    \A k \in 1..Len(fOut.log) :
        \A old \in fOut.log[k].old :
            \E c \in DOMAIN fOut.log[k].set : fOut.log[k].set[c] # old[c]


(***************************************************************************)
(* The two drivers side by side: update_db_table on the tables of a job    *)
(* and update_db_table_ids on the id columns.                              *)
(***************************************************************************)

DriversNext ==
    \/ TableOpen
    \/ OtherWriterDeletes
    \/ RowSelect
    \/ RowUpdate
    \/ RowUpdateError
    \/ TableCommitClose
    \/ TablesReturn
    \/ GetIds
    \/ PromptEnter
    \/ PromptAbort
    \/ Snapshot
    \/ Visit
    \/ NextColumn
    \/ CommitClose

InitDrivers == InitTable \/ InitIds
SpecDrivers == InitDrivers /\ [][DriversNext]_vars

\* The statements of update_db_table on the table it is working on.
TableLog == SelectSeq(fOut.log, LAMBDA s : s.table = CurrentTable.name)

\* The events of update_db_table_ids on column c.
ColumnEvents(c) ==
    {k \in 1..Len(log) : log[k].table = c.table /\ log[k].column = c.column}

\* The values column c held when its worklist was read: no statement of
\* an earlier column touches its table, and nothing is committed before
\* the end.
ValuesRead(c) == SqlDistinct(dbFile[c.table], c.column)

\* C23 for update_db_table: inside the loop the worklist holds every row id
\* of the table but 0, each once; the row ids visited so far are the
\* worklist up to the current position; every statement executed belongs
\* to a visited row id, at most one to each.
C23_TableWorklist ==
    fpc \in {"row", "update"} =>
        LET upto == IF fpc = "update" THEN fOut.i ELSE fOut.i - 1
        IN  /\ {r.rowid : r \in fOut.con} \ {0} \subseteq Range(fOut.todo)
            /\ Cardinality(Range(fOut.todo)) = Len(fOut.todo)
            /\ fOut.visited = SubSeq(fOut.todo, 1, upto)
            /\ \A k \in 1..Len(TableLog) :
                /\ TableLog[k].rowid \in Range(fOut.visited)
                /\ \A j \in 1..Len(TableLog) :
                    TableLog[j].rowid = TableLog[k].rowid => j = k

\* C23 for update_db_table_ids: while a column is worked on, every value
\* the column held when the worklist was read and that the id table maps
\* is either still to visit or has been the subject of exactly one
\* statement, never both; no statement concerns any other value.
C23_IdWorklist ==
    (ipc = "visit" /\ colIdx \in 1..Len(IdColumns)) =>
        LET c == IdColumns[colIdx]
            mapped == ValuesRead(c) \cap DOMAIN ids[c.id_type]
            seen == {log[k].old_id : k \in ColumnEvents(c)}
        IN  /\ todo \subseteq ValuesRead(c)
            /\ seen \cap todo = {}
            /\ seen \cup (todo \cap DOMAIN ids[c.id_type]) = mapped
            /\ Cardinality(seen) = Cardinality(ColumnEvents(c))

\* C23: both drivers read their worklist completely before the first
\* UPDATE or DELETE, visit each of its elements exactly once, and leave it
\* as it was read whatever the statements change.
C23_WorklistReadFirstVisitedOnce == C23_TableWorklist /\ C23_IdWorklist

\* Both loops at their end with statements executed: the table driver
\* after a deletion by another process and an UPDATE, or the id driver
\* after an UPDATE and a DELETE on the same column.
C23_Witness ==
    \/ /\ fpc = "row" /\ fOut.i > Len(fOut.todo)
       /\ Len(fOut.todo) = NTableRows
       /\ Cardinality(fOut.con) < NTableRows
       /\ Len(TableLog) >= 1
    \/ /\ ipc = "visit" /\ todo = {} /\ colIdx = 1
       /\ \E j, k \in ColumnEvents(IdColumns[1]) :
            log[j].op = "UPDATE" /\ log[k].op = "DELETE"


\* The tables update_db_table has finished.
TablesFinished == [k \in 1..(fOut.t - 1) |-> fIn.tables[k].name]

\* The tables update_db_table_ids has finished: those of the columns before
\* the current one that are not the table of the current one.
IdTablesFinished ==
    {IdColumns[k].table : k \in 1..(colIdx - 1)}
        \ {IdColumns[k].table : k \in colIdx..Len(IdColumns)}

\* update_db_table: con.commit() has been called once for every table
\* finished and for no other, and never under preview.
C25_TableCommits ==
    fpc \in {"table", "row", "update", "returned"} =>
        fOut.commits = IF fIn.preview THEN <<>> ELSE TablesFinished

\* A step of update_db_table changes the file only when it is the commit
\* after the last row id, not under preview; a deletion by another process
\* apart.
C25_TableStep ==
    (fpc # Idle /\ fOut'.file # fOut.file) =>
        \/ /\ ~fIn.preview
           /\ fpc = "row" /\ fOut.i > Len(fOut.todo)
           /\ fOut'.file = [fOut.file EXCEPT ![CurrentTable.name] = fOut.con]
        \/ /\ ~fOut.locked
           /\ fOut'.log = fOut.log
           /\ \A t \in DOMAIN fOut.file : fOut'.file[t] \subseteq fOut.file[t]

\* A step of update_db_table_ids changes the file only when it is the
\* commit after the last column of the last table, not under preview.
C25_IdStep ==
    dbFile' # dbFile =>
        /\ ~preview
        /\ ipc = "snapshot" /\ colIdx > Len(IdColumns)
        /\ dbFile' = db

\* C25 as amended: update_db_table commits once per table, after the last
\* row of the table and never after a single row; update_db_table_ids
\* commits once per call, after the last value of the last column of the
\* last table; under preview neither commits and the file keeps its
\* content.
C25_CommitAtTheEndOnly ==
    [][C25_TableStep /\ C25_IdStep /\ C25_TableCommits']_vars

\* Both tables of a job committed after statements were executed, or the
\* id pass committed after statements on both tables.
C25_Witness ==
    \/ /\ fpc = "returned" /\ ~fIn.preview
       /\ Len(fOut.commits) = 2
       /\ \E k \in 1..Len(fOut.log) : fOut.log[k].table = "Chapters2"
       /\ \E k \in 1..Len(fOut.log) : fOut.log[k].table = "TypedBaseItems"
    \/ /\ ipc = "done" /\ ~preview /\ dbFile = db
       /\ \A c \in Range(IdColumns) : ColumnEvents(c) # {}

\* C25: both drivers commit once per table, after the last row or value
\* of that table: once update_db_table_ids has finished a table, the file
\* holds what the connection holds for it unless preview is set; and
\* update_db_table has committed exactly the tables it finished.
C25_CommitPerTable ==
    /\ C25_TableCommits
    /\ (~preview /\ ipc \in {"snapshot", "visit", "done"}) =>
        \A t \in IdTablesFinished : dbFile[t] = db[t]


\* The rows the next SELECT of update_db_table returns.
CurrentRows ==
    IF fpc = "row" /\ fOut.i <= Len(fOut.todo)
    THEN {r \in fOut.con : r.rowid = fOut.todo[fOut.i]}
    ELSE {}

Stopped == fpc \in {"exited", "raised"}

\* The step reads the next row of the worklist.
RowRead == fOut'.visited # fOut.visited

\* The file holds none of the changes made to the table being worked on:
\* the table is not committed, and every row a statement changed is in the
\* file as it was before the statement, if it is there.
NothingOfCurrentTableInFile ==
    /\ CurrentTable.name \notin Range(fOut.commits)
    /\ \A k \in 1..Len(TableLog) :
        \A r \in fOut.file[CurrentTable.name] :
            r.rowid = TableLog[k].rowid => r.cols \in TableLog[k].old

\* C26: a driver error on an UPDATE and a json column that is not empty
\* and does not parse stop the run with the transaction uncommitted and
\* the file without any change of the current table, no step follows; a
\* json column that is empty or None raises nothing and gets no new value.
C26_Step ==
    fpc # Idle =>
        /\ Stopped => UNCHANGED funVars
        /\ (fpc = "update" /\ fOut'.log = fOut.log /\ fOut'.file = fOut.file)
            => fpc' = "exited"
        /\ (fpc = "row" /\ RowRead /\ \E r \in CurrentRows :
                \E c \in Range(CurrentTable.kwargs.json_columns) :
                    r.cols[c] \notin {Null, <<>>} /\ ~IsJson(r.cols[c]))
            => fpc' = "raised"
        /\ (fpc = "row" /\ RowRead /\ \E r \in CurrentRows :
                \A c \in Range(CurrentTable.kwargs.json_columns) :
                    r.cols[c] \in {Null, <<>>})
            => /\ fpc' # "raised"
               /\ fpc' = "update" =>
                    DOMAIN fOut'.row \cap
                        Range(CurrentTable.kwargs.json_columns) = {}
        /\ (~Stopped /\ Stopped') =>
            /\ fOut'.file = fOut.file
            /\ fOut'.commits = fOut.commits
            /\ fOut'.status # <<>>
            /\ NothingOfCurrentTableInFile'

C26_FatalErrorStopsUncommitted == [][C26_Step]_vars

\* The run stopped on the second row of a table, by the driver error or by
\* a json column that does not parse, after the first row was updated with
\* its empty json column left out.
C26_Witness ==
    /\ Stopped
    /\ fOut.i = 2
    /\ Len(TableLog) = 1
    /\ \E r \in fOut.con : r.rowid = 1 /\ r.cols \notin TableLog[1].old
    /\ \A o \in TableLog[1].old : o["data"] = <<>>
    /\ "data" \notin DOMAIN TableLog[1].set


\* C22: a run that a fatal error of update_db_table ended (a driver error
\* on an UPDATE, an UPDATE that changed no row, a json column that does not
\* parse) has an exit status other than 0.
C22_FatalErrorGivesNonZeroStatus ==
    Stopped => fOut.status # <<0>>


(***************************************************************************)
(* PART 10.  The run: the path pass, get_ids, the id path pass, the id     *)
(* pass and update_file_dates, as the main block calls them                *)
(***************************************************************************)

MainStreams == CHOOSE T \in SUBSET StreamKeys : Cardinality(T) = NStreams

\* The source tree is complete and no target is the source, so that the
\* path pass sets library_db_target_path.
MainInit ==
    /\ lst = todo_list_paths
    /\ disk = Tree
    /\ inplace = {}
    /\ JobsInit
    /\ IdsInit
    /\ db["mediastreams"] = StreamRows(MainStreams)
    /\ FunIdle

\* get_ids() called before process_files has returned.
MainGetIdsEarly ==
    /\ passNo = 1
    /\ GetIds

\* Line 1273: get_ids(), once the path pass has returned.
MainGetIds ==
    /\ passNo = 1 /\ pc = "done"
    /\ GetIds

\* Lines 1290 and 1300: the next call of process_files; the first of them
\* follows the return of get_ids.
MainNextPass ==
    /\ passNo = 1 => ipc = "snapshot"
    /\ NextPass

\* update_db_table_ids starts on a column when the job of the id pass has
\* resolved its target.
MainSnapshot ==
    /\ passNo = MaxPasses
    /\ <<MaxPasses, LibraryDb>> \in processed
    /\ Snapshot

\* process_files returns; in the id pass, once update_db_table_ids has.
MainReturn ==
    /\ (passNo = MaxPasses /\ <<MaxPasses, LibraryDb>> \in processed)
        => ipc = "done"
    /\ JobsReturn

\* Line 1308: update_file_dates(), after the id pass.  It opens a
\* connection, sets the dates of the rows whose file exists, commits, and
\* returns without closing the connection; the rows of the model carry no
\* dates.
MainFileDates ==
    /\ passNo = MaxPasses /\ pc = "done"
    /\ ipc = "done"
    /\ ipc' = "file_dates"
    /\ cons' \in {cons \cup u : u \in Unclosed("update_file_dates")}
    /\ UNCHANGED <<db, dbFile, preview, ids, duplicates, reported, colIdx,
                   todo, log>>
    /\ UNCHANGED <<jobVars, funVars>>

MainNext ==
    \/ LiteralJob
    \/ WildcardJob
    \/ GlobStep
    \/ GlobEnd
    \/ MainReturn
    \/ MainGetIds
    \/ PromptEnter
    \/ PromptAbort
    \/ MainNextPass
    \/ MainSnapshot
    \/ Visit
    \/ NextColumn
    \/ CommitClose
    \/ MainFileDates

InitMain == MainInit
SpecMain == InitMain /\ [][MainNext]_vars


\* get_ids has been called.
GetIdsCalled == ipc # "get_ids"

\* get_ids has returned.
GetIdsReturned == ipc \notin {"get_ids", "prompt", "aborted"}

\* The positions of the run are in the order of the main block: get_ids is
\* called after the path pass has returned; a job of a later pass runs
\* after get_ids has returned; update_file_dates runs after the id pass has
\* returned.
C21_Order ==
    /\ GetIdsCalled => (passNo > 1 \/ pc = "done")
    /\ passNo > 1 => GetIdsReturned
    /\ ipc \in {"visit", "done", "file_dates"} => passNo = MaxPasses
    /\ ipc = "file_dates" => (passNo = MaxPasses /\ pc = "done")

\* The id table is assigned by one step only, the call of get_ids, which
\* is taken once, between the path pass and the id path pass.
C21_Step ==
    /\ (~GetIdsCalled /\ GetIdsCalled') =>
        (passNo = 1 /\ pc = "done" /\ UNCHANGED jobVars)
    /\ GetIdsCalled => (GetIdsCalled' /\ ids' = ids)
    /\ ipc = "file_dates" => UNCHANGED vars

\* C21: the id table is derived exactly once, after every job of the path
\* pass and before any job of the id path pass and of the id pass, and is
\* not modified afterwards; update_file_dates runs after the last id job.
C21_IdsDerivedOnceBetweenPasses == [][C21_Step /\ C21_Order']_vars

\* update_file_dates has run after an id pass that rewrote identifiers
\* with the table get_ids derived after the path pass.
C21_Witness ==
    /\ ipc = "file_dates"
    /\ DOMAIN ids["bin"] # {}
    /\ log # <<>>
    /\ \E f \in Tree : <<1, f>> \in processed
    /\ \E f \in Tree : <<2, f>> \in processed
    /\ <<MaxPasses, LibraryDb>> \in processed


\* update_db_table_ids or the prompt of get_ids is running.
InIdHandler ==
    \/ ipc \in {"prompt", "visit"}
    \/ ipc = "snapshot" /\ colIdx > 1

\* C30: a handler that returns normally has closed every connection it
\* opened: while no handler is running, between two handlers and between
\* two passes, no connection is open.
C30_NoConnectionBetweenHandlers ==
    ~InIdHandler => cons = {}


(***************************************************************************)
(* PART 11.  get_target with an automatic target, in the path pass and in  *)
(* the id path pass                                                        *)
(*                                                                         *)
(* The path pass hands get_target path_replacements; the id path pass the  *)
(* dict {**path_replacements, **id_replacements_path}.  The identifiers    *)
(* are short names here; original_root and target_root are absolute.       *)
(***************************************************************************)

\* {**a, **b}: the keys of a in their order, with the value b gives them
\* if it has them, then the keys b adds.
DictMerge(a, b) ==
    LET has(d, k) == \E i \in 1..Len(d) : d[i].key = k
        val(d, k) == d[CHOOSE i \in 1..Len(d) : d[i].key = k].value
        first == [i \in 1..Len(a) |->
                    IF has(b, a[i].key) THEN Item(a[i].key, val(b, a[i].key))
                    ELSE a[i]]
        keep(x) == ~has(a, x.key)
    IN  first \o SelectSeq(b, keep)

\* Lines 1277 to 1278: the id maps one after the other, then the key
\* "target_path_slash" of path_replacements.
id_replacements_path(id_items, path_replacements) ==
    id_items \o
        <<Item(Key_target_path_slash,
               path_replacements[Get(path_replacements,
                                     Key_target_path_slash)].value)>>

\* fs_path_replacements, lines 100 to 109, the key "log_no_warnings" left
\* out.
S_config == <<"/", "c", "o", "n", "f", "i", "g">>
S_AppDataPath ==
    <<"%", "A", "p", "p", "D", "a", "t", "a", "P", "a", "t", "h", "%">>
S_MetadataPath ==
    <<"%", "M", "e", "t", "a", "d", "a", "t", "a", "P", "a", "t", "h", "%">>
S_data_data == <<"/", "d", "a", "t", "a", "/", "d", "a", "t", "a">>
S_data_metadata ==
    <<"/", "d", "a", "t", "a", "/", "m", "e", "t", "a", "d", "a", "t", "a">>
fs_path_replacements ==
    Dict("/", <<Item(S_config, <<"/">>),
                Item(S_AppDataPath, S_data_data),
                Item(S_MetadataPath, S_data_metadata)>>)

\* target_root, line 141.
target_root ==
    <<"/", "d", "o", "c", "k", "e", "r", "/", "j", "e", "l", "l", "y", "f",
      "i", "n", "-", "p", "r", "o", "d">>

\* original_root / source.relative_to(source_root)
OriginalSource(relative, original_root) ==
    as_posix([root |-> Path(original_root).root,
              parts |-> Path(original_root).parts \o Path(relative).parts])

\* Line 813 raises: recursive_root_path_replacer is handed a Path, and
\* when no key is an ancestor of it and it has more than one parent, line
\* 511 calls d.startswith, which a Path does not have.
auto_target_raises(relative, original_root, replacements) ==
    LET p == Path(OriginalSource(relative, original_root))
    IN  FirstRelative(p, replacements) = 0 /\ Len(p.parts) > 1

\* Lines 809 to 821: the automatic target of a source, given as its path
\* relative to source_root.
auto_target(relative, original_root, replacements) ==
    LET original_source == OriginalSource(relative, original_root)
        first == recursive_root_path_replacer(original_source, replacements).d
        second == recursive_root_path_replacer(first, fs_path_replacements).d
        target == Path(second)
    IN  IF target.root # <<>> THEN as_posix(target)
        ELSE as_posix([root |-> Path(target_root).root,
                       parts |-> Path(target_root).parts \o target.parts])

\* The inputs: two roots, the second of them a key of
\* fs_path_replacements; sources whose components are names that are
\* identifiers as well; the mappings of part 3; id maps whose keys are
\* such names.
OriginalRoots == {S_a, S_config}
RelativeSources == {<<"b">>, <<"a", "/", "b">>, <<"b", "/", "a">>}
IdItemLists ==
    {<<Item(<<"a">>, <<"x">>)>>,
     <<Item(<<"b">>, <<"x">>)>>,
     <<Item(<<"a">>, <<"b">>), Item(<<"b">>, <<"x">>)>>}

TargetInit ==
    /\ fpc = "paths"
    /\ \E relative \in RelativeSources, root \in OriginalRoots,
          items \in ItemLists, slash \in Slashes, id_items \in IdItemLists :
        fIn = [source |-> relative, original_root |-> root,
               path_replacements |-> Dict(slash, items),
               id_items |-> id_items]
    /\ fOut = <<>>

\* get_target of the path pass: target "auto", path_replacements.
TargetAuto ==
    /\ fpc = "paths"
    /\ IF auto_target_raises(fIn.source, fIn.original_root,
                             fIn.path_replacements)
       THEN fOut' = fOut /\ fpc' = "raised"
       ELSE /\ fOut' = <<auto_target(fIn.source, fIn.original_root,
                                     fIn.path_replacements)>>
            /\ fpc' = "id_paths"
    /\ fIn' = fIn
    /\ UNCHANGED <<jobVars, idVars>>

\* get_target of the id path pass: target "auto-existing", the merged dict
\* of line 1294.
TargetAutoExisting ==
    /\ fpc = "id_paths"
    /\ LET merged == DictMerge(fIn.path_replacements,
                               id_replacements_path(fIn.id_items,
                                                    fIn.path_replacements))
       IN  IF auto_target_raises(fIn.source, fIn.original_root, merged)
           THEN fOut' = fOut /\ fpc' = "raised"
           ELSE /\ fOut' = Append(fOut, auto_target(fIn.source,
                                                    fIn.original_root, merged))
                /\ fpc' = "done"
    /\ fIn' = fIn
    /\ UNCHANGED <<jobVars, idVars>>

TargetNext ==
    \/ TargetAuto
    \/ TargetAutoExisting

InitTarget == JobsIdle /\ IdsIdle /\ TargetInit
SpecTarget == InitTarget /\ [][TargetNext]_vars

\* C28: the target get_target resolves for a source in the id path pass,
\* with the id entries merged into the mapping, is the target it resolved
\* in the path pass with the path mapping alone; it resolves one whenever
\* the path pass did.
C28_SameTargetInBothPasses ==
    /\ fpc = "done" => fOut[2] = fOut[1]
    /\ fpc = "raised" => fOut = <<>>

\* Both targets resolved for a source below a mapped root, one of whose
\* components is a key of the id map, the merged dict differing from the
\* path mapping in the value of a key they share.
C28_Witness ==
    /\ fpc = "done"
    /\ recursive_root_path_replacer(
           fIn.original_root \o <<"/">> \o fIn.source,
           fIn.path_replacements).modified = 1
    /\ \E i \in 1..Len(fIn.id_items) :
        fIn.id_items[i].key \in Range(Path(fIn.source).parts)
    /\ \E i \in 1..Len(fIn.path_replacements) :
        DictMerge(fIn.path_replacements,
                  id_replacements_path(fIn.id_items, fIn.path_replacements))[i]
            # fIn.path_replacements[i]


(***************************************************************************)
(* PART 12.  process_file in the id path pass: the move of the target      *)
(*                                                                         *)
(* The jobs of the pass hand process_file the target files one after the   *)
(* other, in the order the glob yields them.  fOut holds the target tree   *)
(* (which file is at which path), the targets still to process and the     *)
(* moves made.                                                             *)
(***************************************************************************)

NFiles == 2

N_m == <<"m">>

\* The target files: /m/<dir>/<name> and /<dir>/<name>; a file name has a
\* suffix and a directory name has none.
MoveDirs == {N_71, N_ab, N_22, N_p}
MoveNames == {N_p_j, N_71_j}
MovePaths ==
    {<<"/">> \o Join(<<N_m, d, n>>, "/") : d \in MoveDirs, n \in MoveNames}
    \cup {<<"/">> \o Join(<<d, n>>, "/") : d \in MoveDirs, n \in MoveNames}

MoveInit ==
    /\ fpc = "files"
    /\ \E files \in {S \in SUBSET MovePaths : Cardinality(S) = NFiles},
          R \in IdMaps, slash \in Slashes :
        /\ fIn = [to_replace |-> IdDict(slash, R)]
        /\ fOut = [fs |-> [p \in files |-> p], left |-> files, moves |-> <<>>]

\* source.replace(target) on the tree: the file leaves source and is at
\* target, in the place of the file that was there.
FsReplace(fs, source, target) ==
    [p \in (DOMAIN fs \ {source}) \cup {target} |->
        IF p = target THEN fs[source] ELSE fs[p]]

\* Lines 921 to 928 for one target; a target still to process is in the
\* tree, since a file leaves its path only when it is processed itself.
MoveFile ==
    /\ fpc = "files"
    /\ \E source \in fOut.left :
        LET r == recursive_id_path_replacer(source, fIn.to_replace)
        IN  IF r.raised
            THEN /\ fpc' = "raised"
                 /\ fOut' = [fOut EXCEPT !.left = @ \ {source}]
            ELSE /\ fpc' = "files"
                 /\ IF r.modified = 0
                    THEN fOut' = [fOut EXCEPT !.left = @ \ {source}]
                    ELSE LET target == as_posix(Path(r.d))
                         IN  fOut' = [fs |-> FsReplace(fOut.fs, source, target),
                                      left |-> fOut.left \ {source},
                                      moves |-> Append(fOut.moves,
                                                  [source |-> source,
                                                   target |-> target])]
    /\ fIn' = fIn
    /\ UNCHANGED <<jobVars, idVars>>

\* The jobs of the pass have ended.
MoveEnd ==
    /\ fpc = "files"
    /\ fOut.left = {}
    /\ fpc' = "done"
    /\ UNCHANGED <<fIn, fOut>>
    /\ UNCHANGED <<jobVars, idVars>>

MoveNext ==
    \/ MoveFile
    \/ MoveEnd

InitMove == JobsIdle /\ IdsIdle /\ MoveInit
SpecMove == InitMove /\ [][MoveNext]_vars


\* The step handles `source`, and the rewriter returns for it.
Handles(source) ==
    /\ fpc = "files"
    /\ source \in fOut.left /\ source \notin fOut'.left
    /\ ~recursive_id_path_replacer(source, fIn.to_replace).raised

\* The path the rewriter produces for a target.
Rewritten(source) ==
    as_posix(Path(recursive_id_path_replacer(source, fIn.to_replace).d))

\* C27: in the id path pass, a target whose path the rewriter changes is,
\* after process_file has handled it, at the path the rewriter produced
\* and no longer at its old path; a target whose path has no mapped
\* component stays where it is; and no move overwrites a file that a later
\* job of the pass still has to process.
C27_Step ==
    \A source \in MovePaths :
        Handles(source) =>
            IF recursive_id_path_replacer(source, fIn.to_replace).modified = 1
            THEN /\ Rewritten(source) \in DOMAIN fOut'.fs
                 /\ fOut'.fs[Rewritten(source)] = fOut.fs[source]
                 /\ source \notin DOMAIN fOut'.fs
                 /\ Rewritten(source) \notin fOut'.left
            ELSE fOut'.fs = fOut.fs

C27_MovedAndNothingPendingOverwritten == [][C27_Step]_vars

====
